---- MODULE Spec2Model ----
(***************************************************************************)
(* Model of the numerology package (LanderTome/numerologyCalculator):      *)
(* the reducer, the letter classifier, the name scorer, the digit counts   *)
(* and the name search.                                                    *)
(*                                                                         *)
(* A string is a sequence of characters (runes); a character is a one      *)
(* letter string, except "eacute", which stands for the two-byte rune      *)
(* U+00E9.  Byte offsets are computed from Width.                          *)
(***************************************************************************)
EXTENDS Integers, Sequences, FiniteSets, TLC

VARIABLES
    \* ---- reducer (reduceNumbers, one recursion level per step)
    rpc,        \* "idle" | "running" | "done"
    rarg,       \* the n of the outermost call
    rn,         \* parameter n of the current recursion level
    rmasters,   \* parameter masterNumbers
    rsteps      \* parameter steps / the returned reduceSteps

rvars == <<rpc, rarg, rn, rmasters, rsteps>>

VARIABLES
    \* ---- scorer (a NameNumerology value and the last method called on it)
    nn,         \* [Name, NumberSystem, MasterNumbers, ReduceWords]
    ncall,      \* the method called last: "init" before Name()
    nres        \* the NumerologicalResult returned by the last method

nvars == <<nn, ncall, nres>>

VARIABLES
    \* ---- digit counts (HiddenPassions and KarmicLessons, one map entry per step)
    hpc,        \* "idle" | "hidden" | "hiddenDone" | "karmic" | "karmicDone" | "unknownDone"
    hcounts,    \* the map returned by Counts()
    hvisited,   \* the keys of the map that the range loop has visited
    hmax,       \* local max of hiddenPassions
    hpassions,  \* elements of the local slice (passions, or r of karmicLessons)
    hres        \* the returned [Numbers, MaxCount], or [Unknown] of UnknownCharacters

hvars == <<hpc, hcounts, hvisited, hmax, hpassions, hres>>

VARIABLES
    \* ---- name search (package state and the last Search call)
    DB,                         \* the connection handle: "nil" or the DSN it was opened with
    largestNameValueInTable,    \* the cache: table name -> largest name value
    sarg,                       \* the NameSearchOpts that the caller handed to Search
    sopts,                      \* the caller's NameSearchOpts after the call
    sres,                       \* what Search returned: [results, offset, err, panic]
    sel                         \* index of the result whose method was called last

svars == <<DB, largestNameValueInTable, sarg, sopts, sres, sel>>

VARIABLES
    \* ---- dates (a DateNumerology value and the last method called on it)
    dd,         \* [Date, MasterNumbers, DateSearchOpts]
    dcall,      \* the method called last: "init" before Date()
    dres,       \* the NumerologicalResult of Event() or LifePath()
    dopts,      \* the DateSearchOpts of the client's first Search call
    dsearch,    \* what Search returned: [results, offset]
    dlisted     \* the dates of all batches a client following the offsets has received

dvars == <<dd, dcall, dres, dopts, dsearch, dlisted>>

VARIABLES
    \* ---- two overlapping searches (nameSearch, one statement group per step)
    cpc,        \* the position of each search: "idle", "check", "open", "count",
                \* "query", "cacheRead", "cacheWrite", "find", "done", "crashed"
    cq          \* the locals of each search: [n, opts, query, largest, opened, res]

cvars == <<cpc, cq>>

VARIABLES
    \* ---- CreateDatabase (the loop over the names of one directory)
    bnames,     \* the name entries of the directory that the loop has yet to visit
    brows       \* the rows of the directory's table

bvars == <<bnames, brows>>

VARIABLES
    \* ---- one lookup (addQueryLookup on one column)
    lq,         \* the queryLookup handed to addQueryLookup
    lnums,      \* what generateLookupNums returned for it
    lrows       \* the column values whose rows pass the query afterwards

lvars == <<lq, lnums, lrows>>

vars == <<rpc, rarg, rn, rmasters, rsteps, nn, ncall, nres,
          hpc, hcounts, hvisited, hmax, hpassions, hres,
          DB, largestNameValueInTable, sarg, sopts, sres, sel,
          dd, dcall, dres, dopts, dsearch, dlisted, cpc, cq,
          bnames, brows, lq, lnums, lrows>>

----------------------------------------------------------------------------
(* Bounds *)

\* largest n handed to reduceNumbers by the reducer specification
MaxN == 400

\* longest raw name, in characters, handed to Name() by the scorer specification
MaxNameLen == 3

----------------------------------------------------------------------------
(* Generic helpers *)

Last(s) == s[Len(s)]

RECURSIVE SumSeq(_)
SumSeq(s) == IF s = <<>> THEN 0 ELSE s[1] + SumSeq(Tail(s))

SeqToSet(s) == {s[i] : i \in DOMAIN s}

Min(S) == CHOOSE x \in S : \A y \in S : x <= y

Max(S) == CHOOSE x \in S : \A y \in S : x >= y

\* sort.Ints on a slice without duplicates
RECURSIVE SortInts(_)
SortInts(S) == IF S = {} THEN <<>> ELSE <<Min(S)>> \o SortInts(S \ {Min(S)})

----------------------------------------------------------------------------
(* utils: isMasterNumber, inIntSlice, splitNumber *)

isMasterNumber(v, masterNumbers) == \E i \in DOMAIN masterNumbers : v = masterNumbers[i]

inIntSlice(v, slice) == \E i \in DOMAIN slice : v = slice[i]

\* strconv.FormatUint(i, 10), then one int per byte: 1234 -> <<1, 2, 3, 4>>
RECURSIVE splitNumber(_)
splitNumber(i) == IF i < 10 THEN <<i>> ELSE Append(splitNumber(i \div 10), i % 10)

----------------------------------------------------------------------------
(* Characters and strings *)

\* UTF-8 length of a rune: "eacute" is U+00E9, everything else used is ASCII
Width(c) == IF c = "eacute" THEN 2 ELSE 1

\* len(s): the number of bytes of a string
ByteLen(s) == SumSeq([i \in DOMAIN s |-> Width(s[i])])

\* byte offset of the rune at 1-based rune position k
ByteOffset(s, k) == SumSeq([i \in 1..(k - 1) |-> Width(s[i])])

LowerLetters ==
    <<"a", "b", "c", "d", "e", "f", "g", "h", "i", "j", "k", "l", "m",
      "n", "o", "p", "q", "r", "s", "t", "u", "v", "w", "x", "y", "z">>

UpperLetters ==
    <<"A", "B", "C", "D", "E", "F", "G", "H", "I", "J", "K", "L", "M",
      "N", "O", "P", "Q", "R", "S", "T", "U", "V", "W", "X", "Y", "Z">>

\* unicode.ToLower on one rune
ToLowerRune(c) ==
    IF \E i \in DOMAIN UpperLetters : UpperLetters[i] = c
    THEN LowerLetters[CHOOSE i \in DOMAIN UpperLetters : UpperLetters[i] = c]
    ELSE c

\* unicode.ToUpper on one rune
ToUpperRune(c) ==
    IF \E i \in DOMAIN LowerLetters : LowerLetters[i] = c
    THEN UpperLetters[CHOOSE i \in DOMAIN LowerLetters : LowerLetters[i] = c]
    ELSE c

\* strings.ToLower
ToLower(s) == [i \in DOMAIN s |-> ToLowerRune(s[i])]

\* the white space of unicode.IsSpace / regexp \s among the characters used
WhiteSpace == {" ", "\t", "\n", "\r"}

RECURSIVE TrimLeft(_)
TrimLeft(s) == IF s # <<>> /\ s[1] \in WhiteSpace THEN TrimLeft(Tail(s)) ELSE s

RECURSIVE TrimRight(_)
TrimRight(s) ==
    IF s # <<>> /\ s[Len(s)] \in WhiteSpace
    THEN TrimRight(SubSeq(s, 1, Len(s) - 1))
    ELSE s

\* strings.TrimSpace
TrimSpace(s) == TrimRight(TrimLeft(s))

RECURSIVE Flatten(_)
Flatten(ss) == IF ss = <<>> THEN <<>> ELSE ss[1] \o Flatten(Tail(ss))

\* unidecode.Unidecode: every rune becomes ASCII text
Unidecode(s) == Flatten([i \in DOMAIN s |-> IF s[i] = "eacute" THEN <<"e">> ELSE <<s[i]>>])

\* removeNewLines.ReplaceAllString(s, "")
RemoveNewLines(s) == SelectSeq(s, LAMBDA c : c \notin {"\r", "\n", "\t"})

\* duplicateSpaces.ReplaceAllString(s, " "): every run of white space becomes one space
RECURSIVE removeDuplicateSpaces(_)
removeDuplicateSpaces(s) ==
    IF s = <<>> THEN <<>>
    ELSE IF s[1] \in WhiteSpace
         THEN <<" ">> \o removeDuplicateSpaces(TrimLeft(s))
         ELSE <<s[1]>> \o removeDuplicateSpaces(Tail(s))

ToAscii(s) == TrimSpace(removeDuplicateSpaces(RemoveNewLines(Unidecode(s))))

\* strings.Count(s, "?")
numberOfQuestionMarks(s) == Cardinality({i \in DOMAIN s : s[i] = "?"})

----------------------------------------------------------------------------
(* Number systems *)

ChaldeanMapping ==
    [c \in {"a", "i", "j", "q", "y"} |-> 1] @@ [c \in {"b", "k", "r"} |-> 2] @@
    [c \in {"c", "g", "l", "s"} |-> 3] @@ [c \in {"d", "m", "t"} |-> 4] @@
    [c \in {"e", "h", "n", "x"} |-> 5] @@ [c \in {"u", "v", "w"} |-> 6] @@
    [c \in {"o", "z"} |-> 7] @@ [c \in {"f", "p"} |-> 8] @@
    [c \in {"0"} |-> 0] @@ [c \in {"1"} |-> 1] @@ [c \in {"2"} |-> 2] @@
    [c \in {"3"} |-> 3] @@ [c \in {"4"} |-> 4] @@ [c \in {"5"} |-> 5] @@
    [c \in {"6"} |-> 6] @@ [c \in {"7"} |-> 7] @@ [c \in {"8"} |-> 8] @@
    [c \in {"9"} |-> 9] @@ [c \in {" ", ".", "-"} |-> 0]

PythagoreanMapping ==
    [c \in {"a", "j", "s"} |-> 1] @@ [c \in {"b", "k", "t"} |-> 2] @@
    [c \in {"c", "l", "u"} |-> 3] @@ [c \in {"d", "m", "v"} |-> 4] @@
    [c \in {"e", "n", "w"} |-> 5] @@ [c \in {"f", "o", "x"} |-> 6] @@
    [c \in {"g", "p", "y"} |-> 7] @@ [c \in {"h", "q", "z"} |-> 8] @@
    [c \in {"i", "r"} |-> 9] @@
    [c \in {"0"} |-> 0] @@ [c \in {"1"} |-> 1] @@ [c \in {"2"} |-> 2] @@
    [c \in {"3"} |-> 3] @@ [c \in {"4"} |-> 4] @@ [c \in {"5"} |-> 5] @@
    [c \in {"6"} |-> 6] @@ [c \in {"7"} |-> 7] @@ [c \in {"8"} |-> 8] @@
    [c \in {"9"} |-> 9] @@ [c \in {" ", ".", "-"} |-> 0]

Chaldean ==
    [Name |-> "Chaldean", NumberMapping |-> ChaldeanMapping,
     ValidNumbers |-> <<1, 2, 3, 4, 5, 6, 7, 8>>]

Pythagorean ==
    [Name |-> "Pythagorean", NumberMapping |-> PythagoreanMapping,
     ValidNumbers |-> <<1, 2, 3, 4, 5, 6, 7, 8, 9>>]

NumberSystems == {Pythagorean, Chaldean}

----------------------------------------------------------------------------
(* Reducer *)

RECURSIVE reduceNumbers(_, _, _)
reduceNumbers(n, masterNumbers, steps) ==
    LET steps1 == Append(steps, n) IN
    IF n < 10 THEN steps1
    ELSE IF isMasterNumber(n, masterNumbers) THEN steps1
    ELSE reduceNumbers(SumSeq(splitNumber(n)), masterNumbers, steps1)

----------------------------------------------------------------------------
(* Letter classifier and masks *)

isVowel(r) == r \in {"a", "e", "i", "o", "u"}

\* runes[i] with a 0-based index; the value is irrelevant when i is outside
\* the slice, where Go panics (see maskReads)
RuneAt(runes, i) == IF i \in 0..(Len(runes) - 1) THEN runes[i + 1] ELSE "?"

\* the 0-based indexes of runes that the switch reads to classify the 'y'
\* at index i, following the order of the cases and the short-circuit of &&
maskReads(runes, i) ==
    LET n == Len(runes) IN
    IF n = 1 THEN {}
    ELSE IF i = 0 THEN {i + 1}
    ELSE IF i = n - 1 THEN {i - 1}
    ELSE {i - 1, i + 1}

\* maskY with the mixed case decided by the letter before the 'y'
maskYPrevDecides(runes, i) ==
    LET n == Len(runes)
        prev == isVowel(RuneAt(runes, i - 1))
        next == isVowel(RuneAt(runes, i + 1))
    IN  IF n = 1 THEN TRUE
        ELSE IF i = 0 THEN ~next
        ELSE IF i = n - 1 THEN ~prev
        ELSE IF prev = next THEN ~(prev /\ next)
        ELSE prev

\* the value of m for the 'y' at 0-based index i
maskY(runes, i) ==
    LET n == Len(runes)
        prev == isVowel(RuneAt(runes, i - 1))
        next == isVowel(RuneAt(runes, i + 1))
    IN  IF n = 1 THEN TRUE
        ELSE IF i = 0 THEN ~next
        ELSE IF i = n - 1 THEN ~prev
        ELSE IF i # 0 /\ i # n - 1 /\ prev = next THEN ~(prev /\ next)
        ELSE IF i # 0 /\ i # n - 1 /\ prev # next THEN next
        ELSE FALSE

\* capacity of a byte-sized slice grown from nil by one append per element
AppendCap(n) ==
    IF n = 0 THEN 0
    ELSE IF n <= 8 THEN 8
    ELSE IF n <= 16 THEN 16
    ELSE IF n <= 32 THEN 32
    ELSE IF n <= 64 THEN 64
    ELSE 128

\* maskConstructor(s): the vowel mask, one entry per rune of s; panic when a
\* read falls outside runes
maskConstructor(s) ==
    LET runes == ToLower(s) IN
    [letterMask |-> [k \in DOMAIN runes |->
                        IF runes[k] = "y" THEN maskY(runes, k - 1) ELSE isVowel(runes[k])],
     cap |-> AppendCap(Len(runes)),
     panic |-> \E k \in DOMAIN runes :
                  /\ runes[k] = "y"
                  /\ \E r \in maskReads(runes, k - 1) : r \notin 0..(Len(runes) - 1)]

\* maskStruct.Full
maskFull(m) ==
    [letterMask |-> [k \in DOMAIN m.letterMask |-> TRUE], cap |-> Len(m.letterMask)]

\* maskStruct.Vowels
maskVowels(m) == [letterMask |-> m.letterMask, cap |-> m.cap]

\* maskStruct.Consonants
maskConsonants(m) ==
    [letterMask |-> [k \in DOMAIN m.letterMask |-> ~(m.letterMask[k])],
     cap |-> Len(m.letterMask)]

\* whether the slice expression mask[lo:hi] is within the slice (else Go panics)
SliceInRange(mask, lo, hi) == 0 <= lo /\ lo <= hi /\ hi <= mask.cap

\* mask[lo:hi]; the spare capacity of an append-grown slice holds zero values
SliceMask(mask, lo, hi) ==
    [letterMask |-> [j \in 1..(hi - lo) |->
                        IF lo + j <= Len(mask.letterMask)
                        THEN mask.letterMask[lo + j] ELSE FALSE],
     cap |-> mask.cap - lo]

----------------------------------------------------------------------------
(* Scorer *)

GetNumberSystem(s) == IF s = "Pythagorean" THEN Pythagorean ELSE Chaldean

PanicBreakdown == [panic |-> TRUE, Value |-> 0, ReduceSteps |-> <<>>, LetterValues |-> <<>>]

PanicResult == [panic |-> TRUE, Value |-> 0, ReduceSteps |-> <<>>, Breakdown |-> <<>>]

\* the zero value of NumerologicalResult
NoResult == [panic |-> FALSE, Value |-> 0, ReduceSteps |-> <<>>, Breakdown |-> <<>>]

\* numerologyCalculation: one space-delimited segment s with its slice of the mask
numerologyCalculation(s, masterNumbers, numberSystem, reduce, mask) ==
    LET t == TrimSpace(s)
        known(k) == ToLowerRune(t[k]) \in DOMAIN numberSystem.NumberMapping
        \* mask[i] with i the byte offset of the rune within t
        inMask(k) == ByteOffset(t, k) < Len(mask.letterMask)
        counted(k) == known(k) /\ inMask(k) /\ mask.letterMask[ByteOffset(t, k) + 1]
        nameSteps == [k \in DOMAIN t |->
                         [Letter |-> t[k],
                          Value |-> IF counted(k)
                                    THEN numberSystem.NumberMapping[ToLowerRune(t[k])]
                                    ELSE 0]]
        totalValue == SumSeq([k \in DOMAIN t |-> nameSteps[k].Value])
        reduceSteps == IF reduce THEN reduceNumbers(totalValue, masterNumbers, <<>>)
                       ELSE <<totalValue>>
    IN  IF \E k \in DOMAIN t : known(k) /\ ~inMask(k)
        THEN PanicBreakdown
        ELSE [panic |-> FALSE, Value |-> Last(reduceSteps),
              ReduceSteps |-> reduceSteps, LetterValues |-> nameSteps]

\* the non-empty space-delimited segments that calculateCoreNumber hands on:
\* for each one the runes, and the byte offsets idxStart and idxEnd
coreSegments(name) ==
    LET ext == name \o <<" ">>
        spaces == SortInts({k \in DOMAIN ext : ext[k] = " "})
        from(j) == IF j = 1 THEN 1 ELSE spaces[j - 1] + 1
        segs == [j \in DOMAIN spaces |->
                    [runes |-> SubSeq(ext, from(j), spaces[j] - 1),
                     idxStart |-> ByteOffset(ext, from(j)),
                     idxEnd |-> ByteOffset(ext, spaces[j])]]
    IN  SelectSeq(segs, LAMBDA g : g.idxStart # g.idxEnd)

calculateCoreNumber(name, masterNumbers, reduceWords, numberSystem, mask) ==
    LET segs == coreSegments(name)
        inRange(j) == SliceInRange(mask, segs[j].idxStart, segs[j].idxEnd)
        breakdown == [j \in DOMAIN segs |->
                         IF inRange(j)
                         THEN numerologyCalculation(segs[j].runes, masterNumbers, numberSystem,
                                  reduceWords, SliceMask(mask, segs[j].idxStart, segs[j].idxEnd))
                         ELSE PanicBreakdown]
        totalValue == SumSeq([j \in DOMAIN segs |-> breakdown[j].Value])
        reduceSteps == IF Len(breakdown) = 1 /\ reduceWords
                       THEN breakdown[1].ReduceSteps
                       ELSE reduceNumbers(totalValue, masterNumbers, <<>>)
    IN  IF \E j \in DOMAIN segs : breakdown[j].panic
        THEN PanicResult
        ELSE [panic |-> FALSE, Value |-> Last(reduceSteps),
              ReduceSteps |-> reduceSteps, Breakdown |-> breakdown]

\* NameNumerology.Full: initMask on the receiver's copy, then the calculation
Full(n) ==
    LET m == maskConstructor(n.Name) IN
    IF m.panic THEN PanicResult
    ELSE calculateCoreNumber(n.Name, n.MasterNumbers, n.ReduceWords,
             GetNumberSystem(n.NumberSystem), maskFull(m))

\* NameNumerology.Vowels
Vowels(n) ==
    LET m == maskConstructor(n.Name) IN
    IF m.panic THEN PanicResult
    ELSE calculateCoreNumber(n.Name, n.MasterNumbers, n.ReduceWords,
             GetNumberSystem(n.NumberSystem), maskVowels(m))

\* NameNumerology.Consonants
Consonants(n) ==
    LET m == maskConstructor(n.Name) IN
    IF m.panic THEN PanicResult
    ELSE calculateCoreNumber(n.Name, n.MasterNumbers, n.ReduceWords,
             GetNumberSystem(n.NumberSystem), maskConsonants(m))

\* Name(name, numberSystem, masterNumbers, reduceWords)
Name(name, numberSystem, masterNumbers, reduceWords) ==
    [Name |-> ToAscii(name), NumberSystem |-> numberSystem,
     MasterNumbers |-> masterNumbers, ReduceWords |-> reduceWords]

----------------------------------------------------------------------------
(* Digit counts, hidden passions and karmic lessons *)

\* numberSystem.NumberMapping[unicode.ToLower(n)]: 0 for a missing key
MappedNumber(numberSystem, c) ==
    IF ToLowerRune(c) \in DOMAIN numberSystem.NumberMapping
    THEN numberSystem.NumberMapping[ToLowerRune(c)]
    ELSE 0

\* the loop of countNumerologicalNumbers that also counts a number that is
\* not a key of the map yet
RECURSIVE countLoopAnyKey(_, _, _, _)
countLoopAnyKey(name, numberSystem, k, acc) ==
    IF k > Len(name) THEN acc
    ELSE LET num == MappedNumber(numberSystem, name[k])
             c == IF num \in DOMAIN acc.counts THEN acc.counts[num] ELSE 0
             newCount == c + 1
         IN  countLoopAnyKey(name, numberSystem, k + 1,
                 [counts |-> (num :> newCount) @@ acc.counts,
                  maxCount |-> IF newCount > acc.maxCount THEN newCount ELSE acc.maxCount,
                  unknownChars |-> acc.unknownChars])

countNumerologicalNumbersAnyKey(name, numberSystem) ==
    countLoopAnyKey(name, numberSystem, 1,
        [counts |-> [d \in SeqToSet(numberSystem.ValidNumbers) |-> 0],
         maxCount |-> 0, unknownChars |-> {}])

\* the loop over the characters of name, from position k on
RECURSIVE countLoop(_, _, _, _)
countLoop(name, numberSystem, k, acc) ==
    IF k > Len(name) THEN acc
    ELSE LET num == MappedNumber(numberSystem, name[k]) IN
         IF num \in DOMAIN acc.counts
         THEN LET newCount == acc.counts[num] + 1 IN
              countLoop(name, numberSystem, k + 1,
                  [counts |-> [acc.counts EXCEPT ![num] = newCount],
                   maxCount |-> IF newCount > acc.maxCount THEN newCount ELSE acc.maxCount,
                   unknownChars |-> acc.unknownChars])
         ELSE countLoop(name, numberSystem, k + 1,
                  [counts |-> acc.counts,
                   maxCount |-> acc.maxCount,
                   unknownChars |-> acc.unknownChars \cup {name[k]}])

countNumerologicalNumbers(name, numberSystem) ==
    countLoop(name, numberSystem, 1,
        [counts |-> [d \in SeqToSet(numberSystem.ValidNumbers) |-> 0],
         maxCount |-> 0, unknownChars |-> {}])

\* NameNumerology.Counts
Counts(n) == countNumerologicalNumbers(n.Name, GetNumberSystem(n.NumberSystem)).counts

----------------------------------------------------------------------------
(* Name tables: precalculatedNumerology rows as CreateDatabase writes them *)

\* unknownCharacters.Unacceptable: the unknown characters that
\* AcceptableUnknownCharacters does not match
Unacceptable(unknownChars) == unknownChars \ {"-", " ", "\t", "\n", "\r", ".", "'"}

\* NameNumerology.UnknownCharacters, as a set
UnknownCharacters(n) ==
    Unacceptable(countNumerologicalNumbers(n.Name, GetNumberSystem(n.NumberSystem)).unknownChars)

\* a conversion to uint8
uint8(x) == x % 256

\* the name entries of a table's CSV files, most popular first
\* (extractNamesFromFiles); a name given to both genders is two entries
UsaCensusNames ==
    << [Name |-> <<"l", "e", "e">>, Gender |-> "M"],
       [Name |-> <<"y", "a", "n">>, Gender |-> "F"],
       [Name |-> <<"J", "o", "s", "eacute">>, Gender |-> "M"],
       [Name |-> <<"p", "e", "t", "e", "r">>, Gender |-> "M"],
       [Name |-> <<"l", "e", "e">>, Gender |-> "F"],
       [Name |-> <<"d", "r">>, Gender |-> "M"],
       [Name |-> <<"a", "n", "n", "9">>, Gender |-> "F"],
       [Name |-> <<"l", "y", "n">>, Gender |-> "F"],
       [Name |-> <<"eacute", "m", "i", "l", "e">>, Gender |-> "M"] >>

\* the count columns of a dbEntry: <<prefix, digit>> for every key of counts
countColumns(prefix, counts) ==
    [c \in {<<prefix, k>> : k \in DOMAIN counts} |-> uint8(counts[c[2]])]

\* the dbEntry of CreateDatabase for one name entry, without its Id; the
\* columns are keyed <<number system, part>> and <<prefix, digit>>
dbEntry(entry, pythagorean, chaldean) ==
    [Name |-> entry.Name,
     Gender |-> entry.Gender,
     cols |->
        (<<"pythagorean", "full">> :> uint8(Full(pythagorean).Breakdown[1].ReduceSteps[1])) @@
        (<<"pythagorean", "vowels">> :> uint8(Vowels(pythagorean).Breakdown[1].ReduceSteps[1])) @@
        (<<"pythagorean", "consonants">> :> uint8(Consonants(pythagorean).Breakdown[1].ReduceSteps[1])) @@
        (<<"chaldean", "full">> :> uint8(Full(chaldean).Breakdown[1].ReduceSteps[1])) @@
        (<<"chaldean", "vowels">> :> uint8(Vowels(chaldean).Breakdown[1].ReduceSteps[1])) @@
        (<<"chaldean", "consonants">> :> uint8(Consonants(chaldean).Breakdown[1].ReduceSteps[1])) @@
        countColumns("p", Counts(pythagorean)) @@
        countColumns("c", Counts(chaldean))]

\* one pass of the loop of CreateDatabase: an entry with an unacceptable
\* character is skipped, another one is written with the next Id
CreateRow(rows, entry, pythagorean, chaldean) ==
    IF UnknownCharacters(pythagorean) # {} \/ UnknownCharacters(chaldean) # {}
    THEN rows
    ELSE Append(rows, [Id |-> Len(rows) + 1] @@ dbEntry(entry, pythagorean, chaldean))

\* the loop of CreateDatabase over the name entries
RECURSIVE CreateRows(_, _, _)
CreateRows(names, k, rows) ==
    IF k > Len(names) THEN rows
    ELSE CreateRows(names, k + 1,
             CreateRow(rows, names[k],
                 Name(names[k].Name, "Pythagorean", <<>>, FALSE),
                 Name(names[k].Name, "Chaldean", <<>>, FALSE)))

\* strings.ToLower on the table, sort and number system names in use
LowerWord(w) ==
    CASE w = "USA_Census" -> "usa_census"
      [] w = "Random" -> "random"
      [] w = "Uncommon" -> "uncommon"
      [] w = "Pythagorean" -> "pythagorean"
      [] w = "Chaldean" -> "chaldean"
      [] OTHER -> w

\* connectToDatabase(dsn) when DB is nil: the new DB and the error
connectToDatabase(dsn) ==
    CASE dsn = "sqlite://names" -> [DB |-> dsn, err |-> "nil"]
      [] dsn = "sqlite://other" -> [DB |-> dsn, err |-> "nil"]
      [] dsn = "postgres://down" -> [DB |-> dsn, err |-> "failed to connect"]
      [] dsn = "oracle://names" -> [DB |-> "nil", err |-> "unsupported database"]
      [] OTHER -> [DB |-> "nil", err |-> "unable to parse database connection string"]

\* the rows of the table that CreateDatabase has populated from the
\* usa_census directory
UsaCensusRows == CreateRows(UsaCensusNames, 1, <<>>)

\* the name entries of the usa_census table of a second database
OtherCensusNames ==
    << [Name |-> <<"y", "a", "n">>, Gender |-> "F"],
       [Name |-> <<"l", "y", "n">>, Gender |-> "F"],
       [Name |-> <<"l", "e", "e">>, Gender |-> "M"] >>

OtherCensusRows == CreateRows(OtherCensusNames, 1, <<>>)

\* the rows of DB.Table(table); the table "empty" has no rows and a query
\* on any other table or connection fails and leaves no rows
TableRows(db, table) ==
    IF db = "sqlite://names" /\ table = "usa_census" THEN UsaCensusRows
    ELSE IF db = "sqlite://other" /\ table = "usa_census" THEN OtherCensusRows
    ELSE <<>>

----------------------------------------------------------------------------
(* Name search: the pieces of the query *)

\* strings.Split(s, " ")
RECURSIVE Split(_)
Split(s) ==
    IF \A k \in DOMAIN s : s[k] # " " THEN <<s>>
    ELSE LET k == Min({j \in DOMAIN s : s[j] = " "})
         IN  <<SubSeq(s, 1, k - 1)>> \o Split(SubSeq(s, k + 1, Len(s)))

\* strings.Join(words, " ")
RECURSIVE Join(_)
Join(words) ==
    IF Len(words) = 0 THEN <<>>
    ELSE IF Len(words) = 1 THEN words[1]
    ELSE words[1] \o <<" ">> \o Join(Tail(words))

\* strings.Replace(s, "?", new, 1)
ReplaceFirst(s, new) ==
    IF \A k \in DOMAIN s : s[k] # "?" THEN s
    ELSE LET k == Min({j \in DOMAIN s : s[j] = "?"})
         IN  SubSeq(s, 1, k - 1) \o new \o SubSeq(s, k + 1, Len(s))

\* strings.Replace(s, "?", "%", -1)
ReplaceAllMarks(s) == [k \in DOMAIN s |-> IF s[k] = "?" THEN "%" ELSE s[k]]

\* SQL: s LIKE pattern ('%' any run of characters, '_' any one character,
\* ASCII letters compared without case)
RECURSIVE Like(_, _)
Like(pattern, s) ==
    IF pattern = <<>> THEN s = <<>>
    ELSE IF pattern[1] = "%"
         THEN \E k \in 0..Len(s) : Like(Tail(pattern), SubSeq(s, k + 1, Len(s)))
         ELSE /\ s # <<>>
              /\ (pattern[1] = "_" \/ ToLowerRune(pattern[1]) = ToLowerRune(s[1]))
              /\ Like(Tail(pattern), Tail(s))

\* the loop over validNum in generateLookupNums: the first element that is
\* a negative or a positive number decides, else noMatch keeps its value
RECURSIVE noMatchAfterScan(_, _, _, _, _)
noMatchAfterScan(validNum, k, positiveNums, negativeNums, noMatch) ==
    IF k > Len(validNum) THEN noMatch
    ELSE IF validNum[k] \in negativeNums THEN TRUE
    ELSE IF validNum[k] \in positiveNums THEN FALSE
    ELSE noMatchAfterScan(validNum, k + 1, positiveNums, negativeNums, noMatch)

\* generateLookupNums: the values i it appends to nums, as a set
generateLookupNums(minSearchNumber, maxSearchNumber, numerologyNums, masterNumbers, reduceWords) ==
    LET positiveNums == {numerologyNums[j] : j \in {x \in DOMAIN numerologyNums : numerologyNums[x] >= 0}}
        negativeNums == {-numerologyNums[j] : j \in {x \in DOMAIN numerologyNums : numerologyNums[x] < 0}}
        validNum(i) ==
            LET reducedI == reduceNumbers(i, masterNumbers, <<>>)
                idx == IF reduceWords THEN Len(reducedI) ELSE 1
            IN  reduceNumbers(minSearchNumber + reducedI[idx], masterNumbers, <<>>)
    IN  {i \in 1..(maxSearchNumber - minSearchNumber) :
            ~noMatchAfterScan(validNum(i), 1, positiveNums, negativeNums, positiveNums # {})}

\* variant: a lookup without values adds no condition to the query
addQueryLookupSkipsEmpty(q) ==
    LET lookupNums == generateLookupNums(q.MinimumSearchNumber, q.MaximumSearchNumber,
                          q.TargetNumbers, q.MasterNumbers, q.ReduceWords)
    IN  IF Len(q.TargetNumbers) = 0 \/ lookupNums = {} THEN [any |-> TRUE, nums |-> {}]
        ELSE [any |-> FALSE, nums |-> lookupNums]

\* addQueryLookup: the condition that the lookup q adds to the query on
\* q.ColumnName: none, or membership in lookupNums (WHERE FALSE when empty)
addQueryLookup(q) ==
    IF Len(q.TargetNumbers) = 0 THEN [any |-> TRUE, nums |-> {}]
    ELSE [any |-> FALSE,
          nums |-> generateLookupNums(q.MinimumSearchNumber, q.MaximumSearchNumber,
                       q.TargetNumbers, q.MasterNumbers, q.ReduceWords)]

\* addQueryGender: whether a row passes the gender condition
addQueryGender(gender, row) ==
    IF ToUpperRune(gender) \in {"M", "F"} THEN row.Gender = ToUpperRune(gender) ELSE TRUE

\* addQuerySort: whether a row passes the id condition of the sort
addQuerySortWhere(sort, offset, row) ==
    CASE LowerWord(sort) = "uncommon" -> row.Id >= (IF offset > 5000 THEN offset ELSE 5000)
      [] LowerWord(sort) = "random" -> TRUE
      [] OTHER -> row.Id >= offset

\* rand.New(rand.NewSource(seed)).Float64(), in ten-thousandths
Multiplier(seed) == IF seed = 0 THEN 9451 ELSE 6046

\* the decimal text of the real p / 10000, "." written as -1
RealText(p) ==
    LET frac == p % 10000
        all == <<frac \div 1000, (frac \div 100) % 10, (frac \div 10) % 10, frac % 10>>
        keep == IF frac = 0 THEN 1 ELSE Max({k \in 1..4 : all[k] # 0})
    IN  splitNumber(p \div 10000) \o <<-1>> \o SubSeq(all, 1, keep)

\* the random sort key: substr(id * multiplier, length(id) + 2)
RandomKey(seed, id) ==
    LET text == RealText(id * Multiplier(seed))
    IN  SubSeq(text, Len(splitNumber(id)) + 2, Len(text))

\* text comparison of two keys
RECURSIVE KeyLess(_, _)
KeyLess(a, b) ==
    IF b = <<>> THEN FALSE
    ELSE IF a = <<>> THEN TRUE
    ELSE IF a[1] # b[1] THEN a[1] < b[1]
    ELSE KeyLess(Tail(a), Tail(b))

\* addQuerySort: whether the grouped row a comes before the grouped row b
addQuerySortOrder(sort, seed, a, b) ==
    IF LowerWord(sort) = "random"
    THEN \/ KeyLess(RandomKey(seed, a.Id), RandomKey(seed, b.Id))
         \/ (RandomKey(seed, a.Id) = RandomKey(seed, b.Id) /\ a.Id < b.Id)
    ELSE a.Id < b.Id

\* sort.Sort(sort.Reverse(sort.IntSlice(s))) on a slice without duplicates
SortDescending(s) ==
    LET up == SortInts(SeqToSet(s)) IN [k \in DOMAIN up |-> up[Len(up) + 1 - k]]

\* the first letter of the lower-cased number system name
ColumnPrefix(numberSystem) == IF numberSystem.Name = "Pythagorean" THEN "p" ELSE "c"

\* currentCount[k]: 0 for a missing key
CountOf(currentCount, k) == IF k \in DOMAIN currentCount THEN currentCount[k] ELSE 0

\* the valid numbers i that queryHiddenPassions does not skip when all the
\* hidden passions are negative
hiddenPassionOthers(sorted, numberSystem) ==
    {i \in SeqToSet(numberSystem.ValidNumbers) : ~inIntSlice(-i, sorted)}

\* the columns that the conditions of queryHiddenPassions name; sorted is
\* hiddenPassions after the descending sort
hiddenPassionColumns(sorted, numberSystem) ==
    LET prefix == ColumnPrefix(numberSystem) IN
    IF Len(sorted) = 0 THEN {}
    ELSE IF sorted[1] < 0
    THEN IF hiddenPassionOthers(sorted, numberSystem) = {} THEN {}
         ELSE {<<prefix, i>> : i \in hiddenPassionOthers(sorted, numberSystem)}
                  \cup {<<prefix, -sorted[k]>> : k \in DOMAIN sorted}
    ELSE {<<prefix, i>> : i \in SeqToSet(numberSystem.ValidNumbers)} \cup {<<prefix, sorted[1]>>}

\* whether queryHiddenPassions builds a condition from a buildQuery entry it
\* never initialised: a later passion that is no valid number
hiddenPassionMalformed(sorted, numberSystem) ==
    /\ Len(sorted) > 0
    /\ sorted[1] >= 0
    /\ \E k \in 2..Len(sorted) :
          (IF sorted[k] >= 0 THEN sorted[k] ELSE -sorted[k]) \notin SeqToSet(numberSystem.ValidNumbers)

\* whether queryHiddenPassions hands query.Where a nil *gorm.DB
hiddenPassionNilWhere(sorted, numberSystem) ==
    /\ Len(sorted) > 0
    /\ sorted[1] < 0
    /\ hiddenPassionOthers(sorted, numberSystem) = {}

\* the conditions of queryHiddenPassions on a row, given what
\* countNumerologicalNumbers returned for the name
hiddenPassionsWhere(counted, sorted, numberSystem, row) ==
    LET prefix == ColumnPrefix(numberSystem)
        prime == sorted[1]
        primeCount == CountOf(counted.counts, prime)
        rest == {sorted[k] : k \in 2..Len(sorted)}
        Comparator(i) == IF -i \in rest THEN "<"
                         ELSE IF i \in rest THEN "="
                         ELSE IF i = prime THEN ">=" ELSE "<="
        Holds(cmp, a, b) == CASE cmp = "<" -> a < b
                              [] cmp = "=" -> a = b
                              [] cmp = ">=" -> a >= b
                              [] OTHER -> a <= b
    IN  IF prime < 0
        THEN \A k \in DOMAIN sorted :
                \E i \in hiddenPassionOthers(sorted, numberSystem) :
                    row.cols[<<prefix, i>>] >
                        row.cols[<<prefix, -sorted[k]>>]
                            - (CountOf(counted.counts, i) - CountOf(counted.counts, -sorted[k]))
        ELSE \A i \in SeqToSet(numberSystem.ValidNumbers) :
                IF i = prime
                THEN Holds(Comparator(i), row.cols[<<prefix, i>>], counted.maxCount - primeCount)
                ELSE Holds(Comparator(i), row.cols[<<prefix, i>>],
                           row.cols[<<prefix, prime>>] + (primeCount - CountOf(counted.counts, i)))

\* whether a row passes the conditions of queryHiddenPassions
queryHiddenPassions(name, sorted, numberSystem, row) ==
    IF Len(sorted) = 0 THEN TRUE
    ELSE hiddenPassionsWhere(countNumerologicalNumbers(name, numberSystem),
             sorted, numberSystem, row)

\* the columns that the conditions of queryKarmicLessons name
karmicLessonColumns(n, numberSystem) ==
    {<<ColumnPrefix(numberSystem), IF n[k] < 0 THEN -n[k] ELSE n[k]>> : k \in DOMAIN n}

\* the conditions of queryKarmicLessons on a row, given currentCount
karmicLessonsWhere(currentCount, n, prefix, row) ==
    \A k \in DOMAIN n :
        IF n[k] < 0
        THEN row.cols[<<prefix, -n[k]>>] + CountOf(currentCount, -n[k]) > 0
        ELSE row.cols[<<prefix, n[k]>>] <= 0 - CountOf(currentCount, n[k])

\* whether a row passes the conditions of queryKarmicLessons
queryKarmicLessons(name, n, numberSystem, row) ==
    IF Len(n) = 0 THEN TRUE
    ELSE karmicLessonsWhere(countNumerologicalNumbers(name, numberSystem).counts,
             n, ColumnPrefix(numberSystem), row)

----------------------------------------------------------------------------
(* Name search: nameSearch and NameNumerology.Search *)

\* what a call leaves behind when it returns before the query is built
searchFailure(err, db, cache, opts) ==
    [results |-> <<>>, offset |-> 0, err |-> err, panic |-> FALSE,
     DB |-> db, cache |-> cache, opts |-> opts]

\* nameSearch, the loop over selectedNames and the offset: the last of
\* more than Count rows is left out and its Id is the offset
nameSearchReturn(n, opts, Count, reconstructedName, selectedNames, db, cache) ==
    LET last == Len(selectedNames)
        lastId == IF last > Count THEN selectedNames[last].Id ELSE 0
    IN  [results |-> [i \in 1..(IF last > Count THEN last - 1 ELSE last) |->
                         [Name |-> ReplaceFirst(reconstructedName, selectedNames[i].Name),
                          NumberSystem |-> n.NumberSystem,
                          MasterNumbers |-> n.MasterNumbers,
                          ReduceWords |-> n.ReduceWords]],
         offset |-> IF lastId > 0 /\ LowerWord(opts.Sort) = "random"
                    THEN opts.Offset + Count ELSE lastId,
         err |-> "nil", panic |-> FALSE,
         DB |-> db, cache |-> cache, opts |-> opts]

\* Select("min(id) as id, name").Group("name") over the rows that pass the
\* conditions
queryGroup(rows, matching) ==
    {[Id |-> Min({rows[j].Id : j \in {x \in matching : rows[x].Name = rows[k].Name}}),
      Name |-> rows[k].Name] : k \in matching}

\* the grouped rows in the order of addQuerySort
queryOrder(grouped, sort, seed) ==
    [i \in 1..Cardinality(grouped) |->
        CHOOSE g \in grouped :
            1 + Cardinality({h \in grouped : addQuerySortOrder(sort, seed, h, g)}) = i]

\* variant: Limit(Count), no row beyond the batch is fetched
queryLimitNoProbe(ordered, opts, Count) ==
    LET skipped == IF LowerWord(opts.Sort) = "random" /\ opts.Offset > 0
                   THEN SubSeq(ordered, opts.Offset + 1, Len(ordered))
                   ELSE ordered
    IN  IF Count > 0 /\ Count < Len(skipped)
        THEN SubSeq(skipped, 1, Count)
        ELSE skipped

\* variant: the random sort never skips the rows before the offset
queryLimitNoOffset(ordered, opts, Count) ==
    IF Count + 1 > 0 /\ Count + 1 < Len(ordered)
    THEN SubSeq(ordered, 1, Count + 1)
    ELSE ordered

\* Offset(offset) of the random sort, then Limit(Count + 1)
queryLimit(ordered, opts, Count) ==
    LET skipped == IF LowerWord(opts.Sort) = "random" /\ opts.Offset > 0
                   THEN SubSeq(ordered, opts.Offset + 1, Len(ordered))
                   ELSE ordered
    IN  IF Count + 1 > 0 /\ Count + 1 < Len(skipped)
        THEN SubSeq(skipped, 1, Count + 1)
        ELSE skipped

\* whether the query names a column the table lacks or holds a condition
\* without its terms: Find then fails and leaves selectedNames empty
queryFails(opts, numberSystem, columns) ==
    \/ ~(hiddenPassionColumns(opts.HiddenPassions, numberSystem) \subseteq columns)
    \/ ~(karmicLessonColumns(opts.KarmicLessons, numberSystem) \subseteq columns)
    \/ hiddenPassionMalformed(opts.HiddenPassions, numberSystem)

\* whether a row passes every condition that nameSearch adds to the query
queryWhere(row, opts, nameToSearch, reconstructedName, numberSystem, lookups) ==
    /\ ByteLen(nameToSearch) > 1 => Like(ReplaceAllMarks(ToLower(nameToSearch)), row.Name)
    /\ addQuerySortWhere(opts.Sort, opts.Offset, row)
    /\ addQueryGender(opts.Gender, row)
    /\ queryHiddenPassions(reconstructedName, opts.HiddenPassions, numberSystem, row)
    /\ queryKarmicLessons(reconstructedName, opts.KarmicLessons, numberSystem, row)
    /\ lookups.full.any
          \/ row.cols[<<LowerWord(numberSystem.Name), "full">>] \in lookups.full.nums
    /\ lookups.vowels.any
          \/ row.cols[<<LowerWord(numberSystem.Name), "vowels">>] \in lookups.vowels.nums
    /\ lookups.consonants.any
          \/ row.cols[<<LowerWord(numberSystem.Name), "consonants">>] \in lookups.consonants.nums

\* nameSearch from query.Find on: opts has HiddenPassions sorted
nameSearchFind(n, opts, Count, names, lookups, rows, db, cache) ==
    nameSearchReturn(n, opts, Count, names.reconstructedName,
        IF queryFails(opts, GetNumberSystem(n.NumberSystem), DOMAIN rows[1].cols)
        THEN <<>>
        ELSE queryLimit(
                 queryOrder(
                     queryGroup(rows,
                         {k \in DOMAIN rows :
                             queryWhere(rows[k], opts, names.nameToSearch,
                                 names.reconstructedName,
                                 GetNumberSystem(n.NumberSystem), lookups)}),
                     opts.Sort, opts.Seed),
                 opts, Count),
        db, cache)

\* the queryLookup that nameSearch builds from one calculation of the
\* name without the searched word
queryLookup(result, targets, n, largestNameValueInDb) ==
    [MinimumSearchNumber |-> result.ReduceSteps[1],
     MaximumSearchNumber |-> result.ReduceSteps[1] + largestNameValueInDb,
     TargetNumbers |-> targets,
     MasterNumbers |-> n.MasterNumbers,
     ReduceWords |-> n.ReduceWords]

\* nameSearch from the three lookups on, given Full(), Vowels() and
\* Consonants() of nonSearchNameResults
nameSearchLookups(n, opts, Count, names, full, vowels, consonants, rows, db, cache, largestNameValueInDb) ==
    IF full.panic \/ vowels.panic \/ consonants.panic
    THEN [searchFailure("nil", db, cache, opts) EXCEPT !.panic = TRUE]
    ELSE nameSearchFind(n, opts, Count, names,
             [full |-> addQueryLookup(queryLookup(full, opts.Full, n, largestNameValueInDb)),
              vowels |-> addQueryLookup(queryLookup(vowels, opts.Vowels, n, largestNameValueInDb)),
              consonants |-> addQueryLookup(
                                queryLookup(consonants, opts.Consonants, n, largestNameValueInDb))],
             rows, db, cache)

\* nameSearch from the largest name value on: the cached value of the
\* table, else the table's maximum (100 when that query fails), then cached
nameSearchLargest(n, opts, Count, names, nonSearchNameResults, rows, db, table, cache, largestNameValueInDb) ==
    nameSearchLookups(n, opts, Count, names,
        Full(nonSearchNameResults), Vowels(nonSearchNameResults),
        Consonants(nonSearchNameResults), rows, db,
        IF table \in DOMAIN cache THEN cache
        ELSE (table :> largestNameValueInDb) @@ cache,
        largestNameValueInDb)

\* the largest value of the two full columns of a table
largestNameValue(rows) ==
    Max({Max({rows[k].cols[<<"pythagorean", "full">>],
              rows[k].cols[<<"chaldean", "full">>]}) : k \in DOMAIN rows})

\* nameSearch from the construction of the query on; queryHiddenPassions
\* has sorted opts.HiddenPassions in place and panics on a nil condition
nameSearchQuery(n, opts, names, rows, db, table, cache, maxErr) ==
    IF hiddenPassionNilWhere(opts.HiddenPassions, GetNumberSystem(n.NumberSystem))
    THEN [searchFailure("nil", db, cache, opts) EXCEPT !.panic = TRUE]
    ELSE nameSearchLargest(n, opts, IF opts.Count = 0 THEN 25 ELSE opts.Count, names,
             [Name |-> names.reconstructedName, NumberSystem |-> n.NumberSystem,
              MasterNumbers |-> n.MasterNumbers, ReduceWords |-> n.ReduceWords],
             rows, db, table, cache,
             IF table \in DOMAIN cache THEN cache[table]
             ELSE IF maxErr THEN 100
             ELSE largestNameValue(rows))

\* nameToSearch and reconstructedName from splitNames: every word with a
\* '?' becomes "?", the last of them is the word searched for
searchedName(splitNames) ==
    LET marked == {i \in DOMAIN splitNames : numberOfQuestionMarks(splitNames[i]) > 0}
    IN  [nameToSearch |-> IF marked = {} THEN <<>> ELSE splitNames[Max(marked)],
         reconstructedName |->
             Join([i \in DOMAIN splitNames |->
                      IF i \in marked THEN <<"?">> ELSE splitNames[i]])]

\* nameSearch from the count of the table's rows on
nameSearchTable(n, opts, rows, db, table, cache, maxErr) ==
    IF Len(rows) = 0 THEN searchFailure("database table is empty", db, cache, opts)
    ELSE nameSearchQuery(n,
             IF Len(opts.HiddenPassions) = 0 THEN opts
             ELSE [opts EXCEPT !.HiddenPassions = SortDescending(opts.HiddenPassions)],
             searchedName(Split(n.Name)), rows, db, table, cache, maxErr)

\* nameSearch once DB is set: conn is the DB and the error of the connection
nameSearchConnected(n, opts, conn, cache, maxErr) ==
    IF conn.err # "nil" THEN searchFailure(conn.err, conn.DB, cache, opts)
    ELSE nameSearchTable(n, opts, TableRows(conn.DB, LowerWord(opts.Dictionary)),
             conn.DB, LowerWord(opts.Dictionary), cache, maxErr)

\* nameSearch: results, offset and err, with the DB, the
\* largestNameValueInTable and the caller's opts that the call leaves behind;
\* maxErr tells whether the query for the largest name value fails
nameSearch(n, opts, db, cache, maxErr) ==
    nameSearchConnected(n, opts,
        IF db = "nil" THEN connectToDatabase(opts.Database) ELSE [DB |-> db, err |-> "nil"],
        cache, maxErr)

\* Search that checks the '?' characters only after nameSearch has run
SearchValidatesLast(n, opts, db, cache, maxErr) ==
    LET r == nameSearch(n, opts, db, cache, maxErr) IN
    CASE numberOfQuestionMarks(n.Name) = 0 ->
             [r EXCEPT !.results = <<>>, !.offset = 0, !.err = "missing '?' in name"]
      [] numberOfQuestionMarks(n.Name) = 1 -> r
      [] OTHER ->
             [r EXCEPT !.results = <<>>, !.offset = 0, !.err = "too many '?'"]

\* NameNumerology.Search
Search(n, opts, db, cache, maxErr) ==
    CASE numberOfQuestionMarks(n.Name) = 0 ->
             searchFailure("missing '?' in name", db, cache, opts)
      [] numberOfQuestionMarks(n.Name) = 1 -> nameSearch(n, opts, db, cache, maxErr)
      [] OTHER -> searchFailure("too many '?'", db, cache, opts)

----------------------------------------------------------------------------
(* Inputs of the name search *)

\* the zero value of a queryLookup
NoLookup ==
    [MinimumSearchNumber |-> 0, MaximumSearchNumber |-> 0, TargetNumbers |-> <<>>,
     MasterNumbers |-> <<>>, ReduceWords |-> FALSE]

\* the zero value of what Search returns
NoSearch == [results |-> <<>>, offset |-> 0, err |-> "nil", panic |-> FALSE]

BaseOpts ==
    [Count |-> 0, Offset |-> 0, Seed |-> 0, Database |-> "sqlite://names",
     Dictionary |-> "usa_census", Gender |-> "B", Sort |-> "common",
     Full |-> <<>>, Vowels |-> <<>>, Consonants |-> <<>>,
     HiddenPassions |-> <<>>, KarmicLessons |-> <<>>]

\* the NameSearchOpts handed to Search: BaseOpts changed in one respect
SearchOpts ==
    {BaseOpts}
    \cup {[BaseOpts EXCEPT !.Full = t] : t \in {<<-13>>, <<4, -13>>, <<11, -2>>, <<4>>, <<-4>>}}
    \cup {[BaseOpts EXCEPT !.Vowels = t] : t \in {<<-8>>, <<1>>, <<-1>>}}
    \cup {[BaseOpts EXCEPT !.Consonants = t] : t \in {<<-4>>, <<3>>}}
    \cup {[BaseOpts EXCEPT !.HiddenPassions = t] : t \in {<<5>>, <<-5>>, <<5, 3>>, <<3, 5>>, <<3, -5>>}}
    \cup {[BaseOpts EXCEPT !.KarmicLessons = t] : t \in {<<1>>, <<-1>>, <<9>>, <<5>>, <<-5>>}}
    \cup {[BaseOpts EXCEPT !.Sort = t[1], !.Count = t[2], !.Offset = t[3], !.Seed = t[4]] :
             t \in {<<"common", 1, 0, 0>>, <<"common", 2, 2, 0>>, <<"uncommon", 0, 0, 0>>,
                    <<"random", 2, 0, 0>>, <<"random", 2, 1, 1>>, <<"Random", 1, 0, 1>>}}
    \cup {[BaseOpts EXCEPT !.Gender = t] : t \in {"M", "f"}}
    \cup {[BaseOpts EXCEPT !.Database = t] : t \in {"oracle://names", "", "postgres://down", "sqlite://other"}}
    \cup {[BaseOpts EXCEPT !.Dictionary = t] : t \in {"USA_Census", "empty", "missing"}}

\* the two searches that overlap
Searchers == {1, 2}

\* the locals of a search that has not started
NoLocals ==
    [n |-> Name(<<>>, "Pythagorean", <<>>, FALSE), opts |-> BaseOpts, query |-> "nil",
     largest |-> 0, opened |-> FALSE, res |-> NoSearch]

\* the name templates handed to Name() before Search
SearchTemplates ==
    { <<"?">>, <<"a", " ", "?">>, <<"j", "o", " ", "?", " ", "d", "o", "e">>,
      <<"l", "?">>, <<"l", "e", "e">>, <<"?", " ", "?">>, <<"J", "o", " ", "?", "?">>,
      <<"a", " ", "L", "?", "e">>, <<"l", "_", "?">> }

----------------------------------------------------------------------------
(* Dates: a time.Time is [year, month, day], a UTC midday as NewDate makes it *)

IsLeap(year) == year % 4 = 0 /\ (year % 100 # 0 \/ year % 400 = 0)

\* time.daysIn
daysIn(month, year) ==
    IF month = 2 THEN (IF IsLeap(year) THEN 29 ELSE 28)
    ELSE IF month \in {4, 6, 9, 11} THEN 30 ELSE 31

\* days from 0001-01-01 (day 1, a Monday) up to and including t
DayNumber(t) ==
    LET y == t.year - 1
        before == [m \in 1..12 |-> daysIn(m, t.year)]
    IN  365 * y + (y \div 4) - (y \div 100) + (y \div 400)
          + SumSeq(SubSeq(before, 1, t.month - 1)) + t.day

\* t.AddDate(0, 0, 1)
NextDay(t) ==
    IF t.day < daysIn(t.month, t.year) THEN [t EXCEPT !.day = t.day + 1]
    ELSE IF t.month < 12 THEN [year |-> t.year, month |-> t.month + 1, day |-> 1]
    ELSE [year |-> t.year + 1, month |-> 1, day |-> 1]

\* the date whose DayNumber is n (time.absDate: 400, 100, 4 and 1 year
\* cycles counted from a 1st of March)
DateOfDayNumber(n) ==
    LET z == n + 305
        era == z \div 146097
        doe == z % 146097
        yoe == (doe - (doe \div 1460) + (doe \div 36524) - (doe \div 146096)) \div 365
        doy == doe - (365 * yoe + (yoe \div 4) - (yoe \div 100))
        mp == (5 * doy + 2) \div 153
        m == IF mp < 10 THEN mp + 3 ELSE mp - 9
    IN  [year |-> yoe + era * 400 + (IF m <= 2 THEN 1 ELSE 0),
         month |-> m,
         day |-> doy - ((153 * mp + 2) \div 5) + 1]

\* t.Add(time.Duration(24*n) * time.Hour)
AddDays(t, n) == DateOfDayNumber(DayNumber(t) + n)

\* time.Date normalises the month into 1..12 and lets the day overflow
\* into the following months: October 32 is November 1
NewDate(year, month, day) ==
    AddDays([year |-> year + ((month - 1) \div 12), month |-> ((month - 1) % 12) + 1, day |-> 1],
            day - 1)

\* t.AddDate(years, months, days)
AddDate(t, years, months, days) == NewDate(t.year + years, t.month + months, t.day + days)

\* t.Weekday(): Sunday = 0 ... Saturday = 6
Weekday(t) == DayNumber(t) % 7

\* t.Before(u)
Before(t, u) == DayNumber(t) < DayNumber(u)

\* int64(d.Sub(startDate).Hours() / 24)
DaysBetween(startDate, d) == DayNumber(d) - DayNumber(startDate)

\* strconv.Itoa(n) for n >= 0: the decimal digits of the text
Itoa(n) == splitNumber(n)

\* letterValuesFromNumber
letterValuesFromNumber(n, masterNumbers) ==
    IF isMasterNumber(n, masterNumbers)
    THEN <<[Letter |-> Itoa(n), Value |-> n]>>
    ELSE [k \in DOMAIN splitNumber(n) |->
             [Letter |-> Itoa(splitNumber(n)[k]), Value |-> splitNumber(n)[k]]]

\* one Breakdown of calculateDate: the year, the month or the day
dateBreakdown(val, reduceSteps, masterNumbers) ==
    [panic |-> FALSE, Value |-> Last(reduceSteps), ReduceSteps |-> reduceSteps,
     LetterValues |-> letterValuesFromNumber(val, masterNumbers)]

\* the end of calculateDate: the sum of the three values, reduced with the
\* master numbers for a life path and with none for an event
dateResult(breakdown, reduceSteps) ==
    [panic |-> FALSE, Value |-> Last(reduceSteps), ReduceSteps |-> reduceSteps,
     Breakdown |-> breakdown]

\* variant: the final reduction keeps the caller's master numbers for
\* events too
dateTotalKeepsMasters(breakdown, masterNumbers, lifePath) ==
    dateResult(breakdown,
        reduceNumbers(SumSeq([i \in DOMAIN breakdown |-> breakdown[i].Value]),
                      masterNumbers, <<>>))

dateTotal(breakdown, masterNumbers, lifePath) ==
    dateResult(breakdown,
        reduceNumbers(SumSeq([i \in DOMAIN breakdown |-> breakdown[i].Value]),
                      IF lifePath THEN masterNumbers ELSE <<>>, <<>>))

\* calculateDate
calculateDate(date, masterNumbers, lifePath) ==
    dateTotal([i \in 1..3 |->
                  dateBreakdown(<<date.year, date.month, date.day>>[i],
                      reduceNumbers(<<date.year, date.month, date.day>>[i], masterNumbers, <<>>),
                      masterNumbers)],
              masterNumbers, lifePath)

\* the zero value of DateSearchOpts
NoDateOpts == [Count |-> 0, Offset |-> 0, Match |-> <<>>, MonthsForward |-> 0,
               Dow |-> <<>>, LifePath |-> FALSE]

\* Date(date, masterNumbers)
Date(date, masterNumbers) ==
    [Date |-> date, MasterNumbers |-> masterNumbers, DateSearchOpts |-> NoDateOpts]

\* DateNumerology.Event
Event(d) == calculateDate(d.Date, d.MasterNumbers, FALSE)

\* DateNumerology.LifePath
LifePath(d) == calculateDate(d.Date, d.MasterNumbers, TRUE)

\* the for loop of dateSearch, from d to endDate
RECURSIVE dateSearchLoop(_, _, _, _, _, _)
dateSearchLoop(d, startDate, endDate, masterNumbers, opts, searchResults) ==
    IF ~Before(d, endDate) THEN [results |-> searchResults, offset |-> 0]
    ELSE IF Len(opts.Dow) > 0 /\ ~inIntSlice(Weekday(d), opts.Dow)
    THEN dateSearchLoop(NextDay(d), startDate, endDate, masterNumbers, opts, searchResults)
    ELSE IF inIntSlice(calculateDate(d, masterNumbers, opts.LifePath).Value, opts.Match)
              \/ Len(opts.Match) = 0
    THEN IF Len(searchResults) = opts.Count
         THEN [results |-> searchResults, offset |-> DaysBetween(startDate, d)]
         ELSE dateSearchLoop(NextDay(d), startDate, endDate, masterNumbers, opts,
                  Append(searchResults,
                         [Date |-> d, MasterNumbers |-> masterNumbers, DateSearchOpts |-> opts]))
    ELSE dateSearchLoop(NextDay(d), startDate, endDate, masterNumbers, opts, searchResults)

\* dateSearch
dateSearch(startDate, masterNumbers, opts) ==
    dateSearchLoop(AddDays(startDate, opts.Offset), startDate,
                   AddDate(startDate, 0, opts.MonthsForward, 0), masterNumbers, opts, <<>>)

\* DateNumerology.Search
DateSearch(d, opts) == dateSearch(d.Date, d.MasterNumbers, opts)

\* what the date client holds before any search
NoDateSearch == [results |-> <<>>, offset |-> 0]

----------------------------------------------------------------------------
(* Reducer specification: reduceNumbers, one recursion level per step *)

\* master-number lists handed to the reducer specification
MasterLists == {<<>>, <<11>>, <<22>>, <<11, 22, 33>>, <<13, 19>>, <<10>>, <<7, 11>>}

\* a caller evaluates reduceNumbers(n, masterNumbers, []int{})
ReduceCall(n, masterNumbers) ==
    /\ rpc = "idle"
    /\ rpc' = "running"
    /\ rarg' = n
    /\ rn' = n
    /\ rmasters' = masterNumbers
    /\ rsteps' = <<>>
    /\ UNCHANGED <<nvars, hvars, svars, dvars, cvars, bvars, lvars>>

\* ReduceStep with the single-digit test off by one (n <= 10)
ReduceStepOffByOne ==
    /\ rpc = "running"
    /\ rsteps' = Append(rsteps, rn)
    /\ IF rn <= 10 \/ isMasterNumber(rn, rmasters)
       THEN rpc' = "done" /\ rn' = rn
       ELSE rpc' = "running" /\ rn' = SumSeq(splitNumber(rn))
    /\ UNCHANGED <<rarg, rmasters>>
    /\ UNCHANGED <<nvars, hvars, svars, dvars, cvars, bvars, lvars>>

\* ReduceStep that never recognises a master number
ReduceStepNoMaster ==
    /\ rpc = "running"
    /\ rsteps' = Append(rsteps, rn)
    /\ IF rn < 10
       THEN rpc' = "done" /\ rn' = rn
       ELSE rpc' = "running" /\ rn' = SumSeq(splitNumber(rn))
    /\ UNCHANGED <<rarg, rmasters>>
    /\ UNCHANGED <<nvars, hvars, svars, dvars, cvars, bvars, lvars>>

\* one recursion level of reduceNumbers
ReduceStep ==
    /\ rpc = "running"
    /\ rsteps' = Append(rsteps, rn)
    /\ IF rn < 10 \/ isMasterNumber(rn, rmasters)
       THEN rpc' = "done" /\ rn' = rn
       ELSE rpc' = "running" /\ rn' = SumSeq(splitNumber(rn))
    /\ UNCHANGED <<rarg, rmasters>>
    /\ UNCHANGED <<nvars, hvars, svars, dvars, cvars, bvars, lvars>>

Init ==
    /\ rpc = "idle"
    /\ rarg = 0
    /\ rn = 0
    /\ rmasters = <<>>
    /\ rsteps = <<>>
    /\ nn = Name(<<>>, "Pythagorean", <<>>, FALSE)
    /\ ncall = "init"
    /\ nres = NoResult
    /\ hpc = "idle"
    /\ hcounts = <<>>
    /\ hvisited = {}
    /\ hmax = 0
    /\ hpassions = {}
    /\ hres = [Numbers |-> <<>>, MaxCount |-> 0]
    /\ DB = "nil"
    /\ largestNameValueInTable = <<>>
    /\ sarg = BaseOpts
    /\ sopts = BaseOpts
    /\ sres = NoSearch
    /\ sel = 0
    /\ dd = Date(NewDate(1970, 1, 1), <<>>)
    /\ dcall = "init"
    /\ dres = NoResult
    /\ dopts = NoDateOpts
    /\ dsearch = NoDateSearch
    /\ dlisted = <<>>
    /\ cpc = [p \in Searchers |-> "idle"]
    /\ cq = [p \in Searchers |-> NoLocals]
    /\ bnames = <<>>
    /\ brows = <<>>
    /\ lq = NoLookup
    /\ lnums = {}
    /\ lrows = {}

NextReduce ==
    \/ \E n \in 0..MaxN, m \in MasterLists : ReduceCall(n, m)
    \/ ReduceStep

SpecReduce == Init /\ [][NextReduce]_vars /\ WF_vars(ReduceStep)

----------------------------------------------------------------------------
(* Scorer specification: Name(), then Full(), Vowels() or Consonants() *)

\* all strings of at most n characters over the set chars
RECURSIVE StringsUpTo(_, _)
StringsUpTo(chars, n) ==
    IF n = 0 THEN {<<>>}
    ELSE LET shorter == StringsUpTo(chars, n - 1)
         IN  shorter \cup {Append(t, c) : t \in shorter, c \in chars}

NameChars == {"a", "y", "r", " "}

\* further raw names: upper case, other white space, a non-ASCII rune,
\* characters without a value, and the documented examples
ExtraNames ==
    { <<"Y">>, <<"Y", "a">>, <<"a", "Y">>, <<"Y", "Y">>, <<"r", "Y", "A">>,
      <<"A", "Y", "r">>, <<"A", "y", "A">>, <<"R", "y", "R">>, <<"a", "y", "y", "a", "r">>,
      <<"\t", "eacute", "t", "u", "d", "e", " ", " ">>,
      <<"J", "o", "s", "eacute">>, <<"a", "!", "9", " ", "r", ".">>,
      <<"K", "e", "v", "i", "n", " ", "N", "o", "r", "w", "o", "o", "d", " ", "B", "a", "c", "o", "n">>,
      <<"J", "a", "n", "e", "t", " ", "A", "u", "d", "r", "e", "y", " ", "D", "o", "e">>,
      <<"r", "a", "y", " ", "y", "a", "r", " ", "y">> }

RawNames == StringsUpTo(NameChars, MaxNameLen) \cup ExtraNames

\* master-number lists handed to Name()
NameMasterLists == {<<>>, <<11, 22, 33>>}

NameCall(name, numberSystem, masterNumbers, reduceWords) ==
    /\ ncall = "init"
    /\ nn' = Name(name, numberSystem, masterNumbers, reduceWords)
    /\ ncall' = "Name"
    /\ nres' = NoResult
    /\ UNCHANGED <<rvars, hvars, svars, dvars, cvars, bvars, lvars>>

FullCall ==
    /\ ncall # "init"
    /\ ncall' = "Full"
    /\ nres' = Full(nn)
    /\ UNCHANGED <<nn, rvars, hvars, svars, dvars, cvars, bvars, lvars>>

VowelsCall ==
    /\ ncall # "init"
    /\ ncall' = "Vowels"
    /\ nres' = Vowels(nn)
    /\ UNCHANGED <<nn, rvars, hvars, svars, dvars, cvars, bvars, lvars>>

ConsonantsCall ==
    /\ ncall # "init"
    /\ ncall' = "Consonants"
    /\ nres' = Consonants(nn)
    /\ UNCHANGED <<nn, rvars, hvars, svars, dvars, cvars, bvars, lvars>>

NextName ==
    \/ \E name \in RawNames, ns \in {"Pythagorean", "Chaldean"},
          m \in NameMasterLists, rw \in BOOLEAN : NameCall(name, ns, m, rw)
    \/ FullCall
    \/ VowelsCall
    \/ ConsonantsCall

SpecName == Init /\ [][NextName]_vars

----------------------------------------------------------------------------
(* Counts specification: Name(), then HiddenPassions() or KarmicLessons(),  *)
(* the range over the counts map visiting one key per step in any order    *)

\* longest raw name, in characters, handed to Name() by the counts specification
MaxCountLen == 3

CountChars == {"a", "b", "9"}

CountNames ==
    StringsUpTo(CountChars, MaxCountLen) \cup
    { <<"A", "a", "!">>, <<"a", "a", "b">>, <<"b", "a", "b", "9">>,
      <<"a", "b", "c", "d", "e", "f", "g", "h", "i">> }

\* NameNumerology.HiddenPassions up to the first iteration of the range loop
HiddenPassionsCall ==
    /\ ncall = "Name"
    /\ hpc = "idle"
    /\ hpc' = "hidden"
    /\ hcounts' = Counts(nn)
    /\ hvisited' = {}
    /\ hmax' = 0
    /\ hpassions' = {}
    /\ UNCHANGED <<hres, rvars, nvars, svars, dvars, cvars, bvars, lvars>>

\* the loop body of hiddenPassions where an equal count also replaces passions
HiddenVisitReplaceOnTie(k) ==
    /\ hpc = "hidden"
    /\ k \in DOMAIN hcounts \ hvisited
    /\ hvisited' = hvisited \cup {k}
    /\ IF hcounts[k] >= hmax
       THEN hmax' = hcounts[k] /\ hpassions' = {k}
       ELSE UNCHANGED <<hmax, hpassions>>
    /\ UNCHANGED <<hpc, hcounts, hres, rvars, nvars, svars, dvars, cvars, bvars, lvars>>

\* one iteration of the range loop of hiddenPassions, for the key k
HiddenVisit(k) ==
    /\ hpc = "hidden"
    /\ k \in DOMAIN hcounts \ hvisited
    /\ hvisited' = hvisited \cup {k}
    /\ IF hcounts[k] > hmax
       THEN hmax' = hcounts[k] /\ hpassions' = {k}
       ELSE IF hcounts[k] = hmax
            THEN hpassions' = hpassions \cup {k} /\ UNCHANGED hmax
            ELSE UNCHANGED <<hmax, hpassions>>
    /\ UNCHANGED <<hpc, hcounts, hres, rvars, nvars, svars, dvars, cvars, bvars, lvars>>

\* the end of the loop: sort.Ints(passions) and return
HiddenReturn ==
    /\ hpc = "hidden"
    /\ hvisited = DOMAIN hcounts
    /\ hpc' = "hiddenDone"
    /\ hres' = [Numbers |-> SortInts(hpassions), MaxCount |-> hmax]
    /\ UNCHANGED <<hcounts, hvisited, hmax, hpassions, rvars, nvars, svars, dvars, cvars, bvars, lvars>>

\* NameNumerology.KarmicLessons up to the first iteration of the range loop
KarmicLessonsCall ==
    /\ ncall = "Name"
    /\ hpc = "idle"
    /\ hpc' = "karmic"
    /\ hcounts' = Counts(nn)
    /\ hvisited' = {}
    /\ hpassions' = {}
    /\ UNCHANGED <<hmax, hres, rvars, nvars, svars, dvars, cvars, bvars, lvars>>

\* one iteration of the range loop of karmicLessons, for the key k
KarmicVisit(k) ==
    /\ hpc = "karmic"
    /\ k \in DOMAIN hcounts \ hvisited
    /\ hvisited' = hvisited \cup {k}
    /\ IF hcounts[k] = 0
       THEN hpassions' = hpassions \cup {k}
       ELSE UNCHANGED hpassions
    /\ UNCHANGED <<hpc, hcounts, hmax, hres, rvars, nvars, svars, dvars, cvars, bvars, lvars>>

\* the end of the loop: sort.Ints(r) and return
KarmicReturn ==
    /\ hpc = "karmic"
    /\ hvisited = DOMAIN hcounts
    /\ hpc' = "karmicDone"
    /\ hres' = [Numbers |-> SortInts(hpassions)]
    /\ UNCHANGED <<hcounts, hvisited, hmax, hpassions, rvars, nvars, svars, dvars, cvars, bvars, lvars>>

\* NameNumerology.UnknownCharacters: the returned slice as a set; the counts
\* are kept in the receiver
UnknownCharactersCall ==
    /\ ncall = "Name"
    /\ hpc = "idle"
    /\ hpc' = "unknownDone"
    /\ hcounts' = Counts(nn)
    /\ hres' = [Unknown |-> UnknownCharacters(nn)]
    /\ UNCHANGED <<hvisited, hmax, hpassions, rvars, nvars, svars, dvars, cvars, bvars, lvars>>

NextCounts ==
    \/ \E name \in CountNames, ns \in {"Pythagorean", "Chaldean"} :
          NameCall(name, ns, <<>>, FALSE)
    \/ HiddenPassionsCall
    \/ \E k \in 0..9 : HiddenVisit(k)
    \/ HiddenReturn
    \/ KarmicLessonsCall
    \/ \E k \in 0..9 : KarmicVisit(k)
    \/ KarmicReturn
    \/ UnknownCharactersCall

SpecCounts == Init /\ [][NextCounts]_vars

----------------------------------------------------------------------------
(* Search specification: Name(), Search(), then Full(), Vowels() or        *)
(* Consonants() of a result; the client may drop what it holds and start   *)
(* again, the package keeps DB and largestNameValueInTable                 *)

SearchCall(opts, maxErr) ==
    /\ ncall = "Name"
    /\ \E r \in {Search(nn, opts, DB, largestNameValueInTable, maxErr)} :
          /\ DB' = r.DB
          /\ largestNameValueInTable' = r.cache
          /\ sarg' = opts
          /\ sopts' = r.opts
          /\ sres' = [results |-> r.results, offset |-> r.offset, err |-> r.err, panic |-> r.panic]
    /\ ncall' = "Search"
    /\ sel' = 0
    /\ UNCHANGED <<nn, nres, rvars, hvars, dvars, cvars, bvars, lvars>>

SearchPhase == {"Search", "ResultFull", "ResultVowels", "ResultConsonants"}

ResultFull(i) ==
    /\ ncall = "Search"
    /\ i \in DOMAIN sres.results
    /\ ncall' = "ResultFull"
    /\ sel' = i
    /\ nres' = Full(sres.results[i])
    /\ UNCHANGED <<nn, DB, largestNameValueInTable, sarg, sopts, sres, rvars, hvars, dvars, cvars, bvars, lvars>>

ResultVowels(i) ==
    /\ ncall = "Search"
    /\ i \in DOMAIN sres.results
    /\ ncall' = "ResultVowels"
    /\ sel' = i
    /\ nres' = Vowels(sres.results[i])
    /\ UNCHANGED <<nn, DB, largestNameValueInTable, sarg, sopts, sres, rvars, hvars, dvars, cvars, bvars, lvars>>

ResultConsonants(i) ==
    /\ ncall = "Search"
    /\ i \in DOMAIN sres.results
    /\ ncall' = "ResultConsonants"
    /\ sel' = i
    /\ nres' = Consonants(sres.results[i])
    /\ UNCHANGED <<nn, DB, largestNameValueInTable, sarg, sopts, sres, rvars, hvars, dvars, cvars, bvars, lvars>>

\* the client drops the name and the results it holds
Discard ==
    /\ ncall \in SearchPhase
    /\ ncall' = "init"
    /\ nn' = Name(<<>>, "Pythagorean", <<>>, FALSE)
    /\ nres' = NoResult
    /\ sarg' = BaseOpts
    /\ sopts' = BaseOpts
    /\ sres' = NoSearch
    /\ sel' = 0
    /\ UNCHANGED <<DB, largestNameValueInTable, rvars, hvars, dvars, cvars, bvars, lvars>>

Next ==
    \/ \E name \in SearchTemplates, ns \in {"Pythagorean", "Chaldean"},
          m \in NameMasterLists, rw \in BOOLEAN : NameCall(name, ns, m, rw)
    \/ \E opts \in SearchOpts : SearchCall(opts, FALSE)
    \/ SearchCall(BaseOpts, TRUE)
    \/ \E i \in 1..Len(UsaCensusNames) : ResultFull(i)
    \/ \E i \in 1..Len(UsaCensusNames) : ResultVowels(i)
    \/ \E i \in 1..Len(UsaCensusNames) : ResultConsonants(i)
    \/ Discard

Spec == Init /\ [][Next]_vars

----------------------------------------------------------------------------
(* Date specification: Date(), then Event() or LifePath()                  *)

\* years of the dates handed to Date()
DateYears == {1970, 1993, 2010, 2020, 2021}

\* master-number lists handed to Date()
DateMasterLists == {<<>>, <<11, 22, 33>>, <<11, 22, 33, 44>>}

\* a client evaluates Date(NewDate(year, month, day), masterNumbers)
DateCall(date, masterNumbers) ==
    /\ dcall = "init"
    /\ dcall' = "Date"
    /\ dd' = Date(date, masterNumbers)
    /\ UNCHANGED <<dres, dopts, dsearch, dlisted, rvars, nvars, hvars, svars, cvars, bvars, lvars>>

EventCall ==
    /\ dcall = "Date"
    /\ dcall' = "Event"
    /\ dres' = Event(dd)
    /\ UNCHANGED <<dd, dopts, dsearch, dlisted, rvars, nvars, hvars, svars, cvars, bvars, lvars>>

LifePathCall ==
    /\ dcall = "Date"
    /\ dcall' = "LifePath"
    /\ dres' = LifePath(dd)
    /\ UNCHANGED <<dd, dopts, dsearch, dlisted, rvars, nvars, hvars, svars, cvars, bvars, lvars>>

NextDate ==
    \/ /\ dcall = "init"
       /\ \E year \in DateYears, month \in 1..12, masterNumbers \in DateMasterLists :
              \E day \in 1..daysIn(month, year) :
                  DateCall(NewDate(year, month, day), masterNumbers)
    \/ EventCall
    \/ LifePathCall

SpecDate == Init /\ [][NextDate]_vars

----------------------------------------------------------------------------
(* Date search specification: Date(), then Search(); a client that gets a  *)
(* non-zero offset calls Search() again with that offset                   *)

\* the dates a search starts from: a month of 31 days, the end of January,
\* a leap February, the end of the year
DateSearchStarts ==
    {NewDate(1970, 1, 1), NewDate(2021, 1, 31), NewDate(2020, 2, 1), NewDate(2021, 12, 30)}

DateSearchMasterLists == {<<>>, <<11, 22, 33>>}

DateSearchCounts == {0, 1, 2, 7}

DateSearchOffsets == {0, 3}

DateSearchMatches == {<<>>, <<3, 6>>, <<11>>, <<-3>>, <<-3, -6, -9>>, <<3, -3>>}

DateSearchMonths == {0, 1, 2}

DateSearchDows == {<<>>, <<0, 5, 6>>}

DateSearchOpts ==
    {[Count |-> c, Offset |-> o, Match |-> m, MonthsForward |-> f, Dow |-> w, LifePath |-> l] :
        c \in DateSearchCounts, o \in DateSearchOffsets, m \in DateSearchMatches,
        f \in DateSearchMonths, w \in DateSearchDows, l \in BOOLEAN}

\* the dates of a batch
DatesOf(results) == [i \in DOMAIN results |-> results[i].Date]

\* a client evaluates d.Search(opts)
DateSearchCall(opts) ==
    /\ dcall = "Date"
    /\ dcall' = "Search"
    /\ dopts' = opts
    /\ \E r \in {DateSearch(dd, opts)} :
           /\ dsearch' = r
           /\ dlisted' = DatesOf(r.results)
    /\ UNCHANGED <<dd, dres, rvars, nvars, hvars, svars, cvars, bvars, lvars>>

\* the client evaluates d.Search(opts) again, opts.Offset set to the offset returned
DateSearchAgain ==
    /\ dcall = "Search"
    /\ dsearch.offset # 0
    /\ \E r \in {DateSearch(dd, [dopts EXCEPT !.Offset = dsearch.offset])} :
           /\ dsearch' = r
           /\ dlisted' = dlisted \o DatesOf(r.results)
    /\ UNCHANGED <<dd, dcall, dres, dopts, rvars, nvars, hvars, svars, cvars, bvars, lvars>>

NextDateSearch ==
    \/ /\ dcall = "init"
       /\ \E date \in DateSearchStarts, masterNumbers \in DateSearchMasterLists :
              DateCall(date, masterNumbers)
    \/ /\ dcall = "Date"
       /\ \E opts \in DateSearchOpts : DateSearchCall(opts)
    \/ DateSearchAgain

SpecDateSearch == Init /\ [][NextDateSearch]_vars

----------------------------------------------------------------------------
(* CreateDatabase specification: the table of one directory is set up and  *)
(* the loop over the directory's name entries writes one row per pass      *)

\* a name of n times the letter c
Repeated(c, n) == [k \in 1..n |-> c]

\* the name entries that the CSV files of a directory may hold
DirectoryEntries ==
    { [Name |-> <<"l", "e", "e">>, Gender |-> "M"],
      [Name |-> <<"J", "o", "s", "eacute">>, Gender |-> "M"],
      [Name |-> <<"a", "n", "n", "9">>, Gender |-> "F"],
      [Name |-> <<"d", "r">>, Gender |-> "M"],
      [Name |-> <<"m", "a", "r", "y", " ", "a", "n", "n">>, Gender |-> "F"],
      [Name |-> <<"a", "n", "n", "-", "l", "y", "n">>, Gender |-> "F"],
      [Name |-> <<"l", "y", "n">>, Gender |-> "F"] }

\* a name entry of twenty-nine letters
LongEntry == [Name |-> Repeated("i", 29), Gender |-> "F"]

\* extractNamesFromFiles: the entries of a directory, most popular first
Directories ==
    {<<a>> : a \in DirectoryEntries}
    \cup {<<p[1], p[2]>> : p \in {q \in DirectoryEntries \X DirectoryEntries : q[1] # q[2]}}
    \cup {<<LongEntry>>, <<LongEntry, CHOOSE a \in DirectoryEntries : a.Name = <<"d", "r">> >>}

\* CreateDatabase up to the loop over names: the table is empty
CreateDatabaseCall(names) ==
    /\ bnames = <<>>
    /\ brows = <<>>
    /\ bnames' = names
    /\ brows' = <<>>
    /\ UNCHANGED <<rvars, nvars, hvars, svars, dvars, cvars, lvars>>

\* one pass of the loop over names
CreateDatabaseEntry ==
    /\ bnames # <<>>
    /\ \E pythagorean \in {Name(Head(bnames).Name, "Pythagorean", <<>>, FALSE)},
          chaldean \in {Name(Head(bnames).Name, "Chaldean", <<>>, FALSE)} :
           brows' = CreateRow(brows, Head(bnames), pythagorean, chaldean)
    /\ bnames' = Tail(bnames)
    /\ UNCHANGED <<rvars, nvars, hvars, svars, dvars, cvars, lvars>>

NextCreate ==
    \/ \E names \in Directories : CreateDatabaseCall(names)
    \/ CreateDatabaseEntry

SpecCreate == Init /\ [][NextCreate]_vars

----------------------------------------------------------------------------
(* Lookup specification: nameSearch hands one queryLookup to               *)
(* addQueryLookup and the query is run on a table with one row for every   *)
(* value that the column of the lookup can hold                            *)

\* the largest value of a uint8 column
MaxColumn == 255

\* the largest MinimumSearchNumber of the lookups
MaxLookupMin == 20

LookupTargets ==
    { <<>>, <<4>>, <<11>>, <<0>>, <<-13>>, <<-4>>, <<4, -13>>, <<11, -2>>, <<2, -11>>,
      <<1, 8, -13>>, <<-1, -2, -3, -4, -5, -6, -7, -8, -9>> }

LookupMasterLists == { <<>>, <<11, 22, 33>> }

\* the largest name values: of the model's table, and the fallback
LookupLargest == {largestNameValue(UsaCensusRows), 100}

\* the queryLookup values that nameSearch builds
LookupQueries ==
    {[MinimumSearchNumber |-> t[1], MaximumSearchNumber |-> t[1] + t[2], TargetNumbers |-> t[3],
      MasterNumbers |-> t[4], ReduceWords |-> t[5]] :
        t \in (0..MaxLookupMin) \X LookupLargest \X LookupTargets \X LookupMasterLists \X BOOLEAN}

\* a row whose full column holds v
RowWithFull(v) ==
    [Id |-> 1, Name |-> <<"x">>, Gender |-> "M",
     cols |-> (<<"pythagorean", "full">> :> v) @@ (<<"pythagorean", "vowels">> :> 0)
                  @@ (<<"pythagorean", "consonants">> :> 0)]

\* the lookup that adds nothing to the query
NoCondition == [any |-> TRUE, nums |-> {}]

\* query.Find after addQueryLookup(query, q) on the full column: the
\* values of the column whose rows are selected
selectedFull(cond) ==
    {v \in 0..MaxColumn :
        queryWhere(RowWithFull(v), BaseOpts, <<"?">>, <<"?">>, Pythagorean,
            [full |-> cond, vowels |-> NoCondition, consonants |-> NoCondition])}

\* addQueryLookup(query, q) of a search that has built no lookup yet, and
\* the query run
AddQueryLookupCall(q) ==
    /\ lq = NoLookup
    /\ lq' = q
    /\ lnums' = generateLookupNums(q.MinimumSearchNumber, q.MaximumSearchNumber,
                     q.TargetNumbers, q.MasterNumbers, q.ReduceWords)
    /\ lrows' = selectedFull(addQueryLookup(q))
    /\ UNCHANGED <<rvars, nvars, hvars, svars, dvars, cvars, bvars>>

\* the search returns: its lookup and the selected rows are dropped
LookupReturn ==
    /\ lq # NoLookup
    /\ lq' = NoLookup
    /\ lnums' = {}
    /\ lrows' = {}
    /\ UNCHANGED <<rvars, nvars, hvars, svars, dvars, cvars, bvars>>

NextLookup ==
    \/ \E q \in LookupQueries : AddQueryLookupCall(q)
    \/ LookupReturn

SpecLookup == Init /\ [][NextLookup]_vars

----------------------------------------------------------------------------
(* Overlap specification: two goroutines call Search at the same time; the *)
(* package variables DB and largestNameValueInTable are shared, a step is  *)
(* a group of statements of nameSearch between two accesses to them        *)

OverlapTemplates == { <<"?">>, <<"l", "?">> }

OverlapOpts ==
    { BaseOpts,
      [BaseOpts EXCEPT !.Database = "sqlite://other"],
      [BaseOpts EXCEPT !.Count = 1, !.Gender = "F"],
      [BaseOpts EXCEPT !.Database = "postgres://down"] }

\* the databases the goroutines connect to and the tables they search, and
\* the rows of every such table: no goroutine writes to a table
OverlapDatabases == {connectToDatabase(opts.Database).DB : opts \in OverlapOpts}

OverlapTables == {LowerWord(opts.Dictionary) : opts \in OverlapOpts}

OverlapRows == [db \in OverlapDatabases, table \in OverlapTables |-> TableRows(db, table)]

\* what a finished search returns
Returned(r) == [results |-> r.results, offset |-> r.offset, err |-> r.err, panic |-> r.panic]

\* a goroutine calls Search on a template with one '?': nameSearch starts
OverlapSearch(p, name, opts) ==
    /\ cpc[p] = "idle"
    /\ cpc' = [cpc EXCEPT ![p] = "check"]
    /\ cq' = [cq EXCEPT ![p] = [NoLocals EXCEPT !.n = Name(name, "Pythagorean", <<>>, FALSE),
                                                !.opts = opts]]
    /\ UNCHANGED <<rvars, nvars, hvars, svars, dvars, bvars, lvars>>

\* if DB == nil, in nameSearch and again in connectToDatabase
OverlapCheck(p) ==
    /\ cpc[p] = "check"
    /\ cpc' = [cpc EXCEPT ![p] = IF DB = "nil" THEN "open" ELSE "count"]
    /\ UNCHANGED <<cq, rvars, nvars, hvars, svars, dvars, bvars, lvars>>

\* DB, err = gorm.Open(...): the assignment to DB, and the return on an error
OverlapOpen(p) ==
    /\ cpc[p] = "open"
    /\ \E conn \in {connectToDatabase(cq[p].opts.Database)} :
           /\ DB' = conn.DB
           /\ IF conn.err # "nil"
              THEN /\ cpc' = [cpc EXCEPT ![p] = "done"]
                   /\ cq' = [cq EXCEPT ![p].opened = TRUE,
                                       ![p].res = [NoSearch EXCEPT !.err = conn.err]]
              ELSE /\ cpc' = [cpc EXCEPT ![p] = "count"]
                   /\ cq' = [cq EXCEPT ![p].opened = TRUE]
    /\ UNCHANGED <<largestNameValueInTable, sarg, sopts, sres, sel, rvars, nvars, hvars, dvars, bvars, lvars>>

\* DB.Table(table).Count(&count), and the return on an empty table
OverlapCount(p, tables) ==
    /\ cpc[p] = "count"
    /\ IF Len(tables[DB, LowerWord(cq[p].opts.Dictionary)]) = 0
       THEN /\ cpc' = [cpc EXCEPT ![p] = "done"]
            /\ cq' = [cq EXCEPT ![p].res = [NoSearch EXCEPT !.err = "database table is empty"]]
       ELSE /\ cpc' = [cpc EXCEPT ![p] = "query"]
            /\ cq' = cq
    /\ UNCHANGED <<rvars, nvars, hvars, svars, dvars, bvars, lvars>>

\* query := DB.Table(table)... up to queryKarmicLessons: the query is bound
\* to the DB of this moment and HiddenPassions is sorted
OverlapQuery(p) ==
    /\ cpc[p] = "query"
    /\ IF hiddenPassionNilWhere(cq[p].opts.HiddenPassions, GetNumberSystem(cq[p].n.NumberSystem))
       THEN /\ cpc' = [cpc EXCEPT ![p] = "done"]
            /\ cq' = [cq EXCEPT ![p].res = [NoSearch EXCEPT !.panic = TRUE]]
       ELSE /\ cpc' = [cpc EXCEPT ![p] = "cacheRead"]
            /\ cq' = [cq EXCEPT ![p].query = DB,
                                ![p].opts.HiddenPassions = SortDescending(@)]
    /\ UNCHANGED <<rvars, nvars, hvars, svars, dvars, bvars, lvars>>

\* largestNameValueInDb, ok = largestNameValueInTable[table], and the query
\* for the maximum on DB when the table is not cached
OverlapCacheRead(p, tables) ==
    /\ cpc[p] = "cacheRead"
    /\ IF LowerWord(cq[p].opts.Dictionary) \in DOMAIN largestNameValueInTable
       THEN /\ cpc' = [cpc EXCEPT ![p] = "find"]
            /\ cq' = [cq EXCEPT ![p].largest =
                          largestNameValueInTable[LowerWord(cq[p].opts.Dictionary)]]
       ELSE /\ cpc' = [cpc EXCEPT ![p] = "cacheWrite"]
            /\ cq' = [cq EXCEPT ![p].largest =
                          IF Len(tables[DB, LowerWord(cq[p].opts.Dictionary)]) = 0 THEN 100
                          ELSE largestNameValue(tables[DB, LowerWord(cq[p].opts.Dictionary)])]
    /\ UNCHANGED <<rvars, nvars, hvars, svars, dvars, bvars, lvars>>

\* largestNameValueInTable[table] = largestNameValueInDb
OverlapCacheWrite(p) ==
    /\ cpc[p] = "cacheWrite"
    /\ cpc' = [cpc EXCEPT ![p] = "find"]
    /\ largestNameValueInTable' =
           (LowerWord(cq[p].opts.Dictionary) :> cq[p].largest) @@ largestNameValueInTable
    /\ UNCHANGED <<cq, DB, sarg, sopts, sres, sel, rvars, nvars, hvars, dvars, bvars, lvars>>

\* a write to the map while the other goroutine reads or writes it: the
\* runtime may stop the program (fatal error: concurrent map writes)
OverlapCacheFault ==
    /\ \E p \in Searchers, q \in Searchers :
           /\ p # q
           /\ cpc[p] = "cacheWrite"
           /\ cpc[q] \in {"cacheRead", "cacheWrite"}
    /\ cpc' = [p \in Searchers |-> "crashed"]
    /\ UNCHANGED <<cq, rvars, nvars, hvars, svars, dvars, bvars, lvars>>

\* the three lookups, query.Find(&selectedNames) on the bound query, the
\* loop over selectedNames and the return; Find on a connection without the
\* table fails and leaves selectedNames empty
OverlapFind(p, tables) ==
    /\ cpc[p] = "find"
    /\ cpc' = [cpc EXCEPT ![p] = "done"]
    /\ \E n \in {cq[p].n}, opts \in {cq[p].opts}, largest \in {cq[p].largest} :
       \E table \in {LowerWord(opts.Dictionary)} :
       \E rows \in {tables[cq[p].query, table]}, names \in {searchedName(Split(n.Name))},
          Count \in {IF opts.Count = 0 THEN 25 ELSE opts.Count} :
       \E nonSearchNameResults \in {[n EXCEPT !.Name = names.reconstructedName]} :
           IF Len(rows) = 0
           THEN cq' = [cq EXCEPT ![p].res = NoSearch]
           ELSE \E r \in {nameSearchLargest(n, opts, Count, names, nonSearchNameResults,
                               rows, DB, table, largestNameValueInTable, largest)} :
                    cq' = [cq EXCEPT ![p].res = Returned(r)]
    /\ UNCHANGED <<rvars, nvars, hvars, svars, dvars, bvars, lvars>>

NextOverlap ==
    \E tables \in {OverlapRows} :
        \/ \E p \in Searchers, name \in OverlapTemplates, opts \in OverlapOpts :
               OverlapSearch(p, name, opts)
        \/ \E p \in Searchers : OverlapCheck(p)
        \/ \E p \in Searchers : OverlapOpen(p)
        \/ \E p \in Searchers : OverlapCount(p, tables)
        \/ \E p \in Searchers : OverlapQuery(p)
        \/ \E p \in Searchers : OverlapCacheRead(p, tables)
        \/ \E p \in Searchers : OverlapCacheWrite(p)
        \/ OverlapCacheFault
        \/ \E p \in Searchers : OverlapFind(p, tables)

SpecOverlap == Init /\ [][NextOverlap]_vars

----------------------------------------------------------------------------
(* Properties of the reducer *)

\* the decimal digit sum, by arithmetic
RECURSIVE DigitSum(_)
DigitSum(n) == IF n < 10 THEN n ELSE (n % 10) + DigitSum(n \div 10)

\* n, DigitSum(n), DigitSum(DigitSum(n)), ... down to a single digit
RECURSIVE DigitChain(_)
DigitChain(n) == IF n < 10 THEN <<n>> ELSE <<n>> \o DigitChain(DigitSum(n))

\* the first value of n's digit-sum chain that is below 10 or a master number
FirstStop(n, masters) ==
    LET c == DigitChain(n)
        k == Min({i \in DOMAIN c : c[i] < 10 \/ c[i] \in masters})
    IN c[k]

ChainShape(n, masters, s) ==
    /\ Len(s) >= 1
    /\ s[1] = n
    /\ \A i \in 2..Len(s) : s[i] = DigitSum(s[i - 1])
    /\ \A i \in 1..(Len(s) - 1) : s[i] >= 10 /\ s[i] \notin masters
    /\ (Last(s) < 10 \/ Last(s) \in masters)

\* C4 as stated: for every n >= 10 that is not a master number, the last
\* element of reduceNumbers(n, masterNumbers, []) is a single digit.
C4_LastIsSingleDigit ==
    (rpc = "done" /\ rarg >= 10 /\ ~isMasterNumber(rarg, rmasters))
        => Last(rsteps) < 10

\* C4 amended: for every n >= 10 that is not a master number, the last
\* element of reduceNumbers(n, masterNumbers, []) is the first value of n's
\* digit-sum chain that is below 10 or a master number; it is a single digit
\* unless the chain reaches a master number first.
C4_LastIsDigitOrMaster ==
    (rpc = "done" /\ rarg >= 10 /\ ~isMasterNumber(rarg, rmasters))
        => /\ Len(rsteps) >= 2
           /\ Last(rsteps) = FirstStop(rarg, SeqToSet(rmasters))
           /\ (Last(rsteps) < 10 \/ isMasterNumber(Last(rsteps), rmasters))

\* C4 witness: a finished reduction of a non-master n >= 10 that ends at a
\* master number
C4_Witness ==
    /\ rpc = "done"
    /\ rarg >= 10
    /\ ~isMasterNumber(rarg, rmasters)
    /\ Last(rsteps) >= 10

\* C5: reduceNumbers terminates for every n >= 0 and every master-number
\* list; the returned sequence starts with n, each later element is the
\* digit sum of the one before, and it stops at the first element that is
\* below 10 or a master number (so it is <<n>> when n < 10 or n is a master
\* number). The recursive operator used by the scorer and the solver returns
\* the same sequence.
C5_ReduceTerminatesWithChain ==
    /\ [](rpc = "done" =>
            /\ ChainShape(rarg, SeqToSet(rmasters), rsteps)
            /\ ((rarg < 10 \/ isMasterNumber(rarg, rmasters)) => rsteps = <<rarg>>)
            /\ rsteps = reduceNumbers(rarg, rmasters, <<>>))
    /\ ((rpc = "running") ~> (rpc = "done"))

\* C5 witness: a finished reduction of three steps that stops at a master
\* number
C5_Witness ==
    /\ rpc = "done"
    /\ Len(rsteps) = 3
    /\ isMasterNumber(Last(rsteps), rmasters)

----------------------------------------------------------------------------
(* Properties of the scorer *)

\* the NameNumerology on which the last scoring method was called: the
\* name built by Name(), or the selected result of Search
ScoredName ==
    IF ncall \in {"ResultFull", "ResultVowels", "ResultConsonants"}
    THEN sres.results[sel]
    ELSE nn

\* the mask that the method named by ncall hands to calculateCoreNumber,
\* one entry per character of the name
CalledMask ==
    LET m == maskConstructor(ScoredName.Name) IN
    IF ncall \in {"Full", "ResultFull"} THEN maskFull(m).letterMask
    ELSE IF ncall \in {"Vowels", "ResultVowels"} THEN maskVowels(m).letterMask
    ELSE maskConsonants(m).letterMask

\* value of the character at position k under the mask bits
MaskedValue(name, bits, mapping, k) ==
    LET c == ToLowerRune(name[k]) IN
    IF c \in DOMAIN mapping /\ bits[k] THEN mapping[c] ELSE 0

\* the masked letter sums of the non-empty space-delimited segments, found
\* by one scan of the name: cur is the sum of the open segment, open
\* whether it has a character
RECURSIVE SegmentSums(_, _, _, _, _, _)
SegmentSums(name, bits, mapping, k, cur, open) ==
    IF k > Len(name) THEN (IF open THEN <<cur>> ELSE <<>>)
    ELSE IF name[k] = " "
         THEN (IF open THEN <<cur>> ELSE <<>>) \o SegmentSums(name, bits, mapping, k + 1, 0, FALSE)
         ELSE SegmentSums(name, bits, mapping, k + 1,
                          cur + MaskedValue(name, bits, mapping, k), TRUE)

\* the digit-sum chain of n cut at its first value below 10 or in masters
ChainToStop(n, masters) ==
    LET c == DigitChain(n)
        k == Min({i \in DOMAIN c : c[i] < 10 \/ c[i] \in masters})
    IN SubSeq(c, 1, k)

\* C6: with reduceWords, Value is the last element of reduce(S), S the sum
\* over the non-empty segments of the last element of reduce(segment's
\* masked letter sum); without reduceWords, Value is the last element of
\* reduce(T), T the masked letter sum of the whole name; with reduceWords
\* and exactly one segment, ReduceSteps are that segment's own steps.
C6_CoreNumberValue ==
    ncall \in {"Full", "Vowels", "Consonants", "ResultFull", "ResultVowels", "ResultConsonants"} =>
        LET masters == SeqToSet(ScoredName.MasterNumbers)
            sums == SegmentSums(ScoredName.Name, CalledMask,
                        GetNumberSystem(ScoredName.NumberSystem).NumberMapping, 1, 0, FALSE)
            S == SumSeq([j \in DOMAIN sums |-> FirstStop(sums[j], masters)])
            T == SumSeq(sums)
        IN  /\ ~nres.panic
            /\ nres.Value = Last(nres.ReduceSteps)
            /\ ScoredName.ReduceWords => nres.Value = FirstStop(S, masters)
            /\ ~ScoredName.ReduceWords => nres.Value = FirstStop(T, masters)
            /\ (ScoredName.ReduceWords /\ Len(sums) = 1)
                   => nres.ReduceSteps = ChainToStop(sums[1], masters)

\* whether the character at position k of name is one of a, e, i, o, u
PlainVowel(name, k) ==
    name[k] \in {"a", "e", "i", "o", "u", "A", "E", "I", "O", "U"}

\* the reference classification of the character at position k of name
ReferenceVowel(name, k) ==
    IF name[k] \notin {"y", "Y"} THEN PlainVowel(name, k)
    ELSE IF Len(name) = 1 THEN TRUE
    ELSE IF k = 1 THEN ~PlainVowel(name, 2)
    ELSE IF k = Len(name) THEN ~PlainVowel(name, k - 1)
    ELSE IF PlainVowel(name, k - 1) = PlainVowel(name, k + 1)
         THEN ~PlainVowel(name, k - 1)
         ELSE PlainVowel(name, k + 1)

\* C7: maskConstructor classifies every character of the name without
\* reading outside the name, and its result is the reference classification
\* (a neighbour of a 'y' counts as a vowel when it is one of a, e, i, o, u).
C7_MaskMatchesReference ==
    ncall # "init" =>
        LET m == maskConstructor(nn.Name) IN
        /\ ~m.panic
        /\ Len(m.letterMask) = Len(nn.Name)
        /\ \A k \in DOMAIN nn.Name : m.letterMask[k] = ReferenceVowel(nn.Name, k)

\* C7 witness: Vowels() of "rya": the 'y' between a consonant and a vowel
\* is counted as a vowel (7), and so is the 'a' (1)
C7_Witness ==
    /\ ncall = "Vowels"
    /\ nn.Name = <<"r", "y", "a">>
    /\ nn.NumberSystem = "Pythagorean"
    /\ ~nres.panic
    /\ nres.Breakdown[1].ReduceSteps[1] = 8

----------------------------------------------------------------------------
(* Properties of the digit counts *)

\* number of characters of the name that map to the digit d
OccurrencesOf(d) ==
    LET mapping == GetNumberSystem(nn.NumberSystem).NumberMapping IN
    Cardinality({k \in DOMAIN nn.Name :
                    /\ ToLowerRune(nn.Name[k]) \in DOMAIN mapping
                    /\ mapping[ToLowerRune(nn.Name[k])] = d})

ValidDigits == SeqToSet(GetNumberSystem(nn.NumberSystem).ValidNumbers)

\* s lists the elements of the set S in ascending order
AscendingListOf(s, S) ==
    /\ Len(s) = Cardinality(S)
    /\ SeqToSet(s) = S
    /\ \A i \in 1..(Len(s) - 1) : s[i] < s[i + 1]

\* C9: whatever the order in which the entries of the counts map are
\* visited, hiddenPassions returns the digits whose count is the maximum
\* count, ascending, with that maximum as MaxCount; a name without a counted
\* character gives every valid digit and MaxCount 0.
C9_HiddenPassionsOrderIndependent ==
    hpc = "hiddenDone" =>
        LET top == Max({OccurrencesOf(d) : d \in ValidDigits}) IN
        /\ hres.MaxCount = top
        /\ AscendingListOf(hres.Numbers, {d \in ValidDigits : OccurrencesOf(d) = top})
        /\ (\A d \in ValidDigits : OccurrencesOf(d) = 0)
               => (hres.Numbers = GetNumberSystem(nn.NumberSystem).ValidNumbers
                   /\ hres.MaxCount = 0)

\* C9 witness: HiddenPassions of "ab": the digits 1 and 2 tie at the
\* maximum count 1, the other seven digits have count 0
C9_Witness ==
    /\ hpc = "hiddenDone"
    /\ nn.Name = <<"a", "b">>
    /\ nn.NumberSystem = "Pythagorean"
    /\ hres = [Numbers |-> <<1, 2>>, MaxCount |-> 1]

\* C10: the counts map has an entry for every valid digit and for no other
\* key, the entry for d is the number of characters that map to d, maxCount
\* is the largest entry, and KarmicLessons returns the valid digits with no
\* character, ascending.
C10_CountsAndKarmicLessons ==
    /\ hpc # "idle" =>
          /\ DOMAIN hcounts = ValidDigits
          /\ \A d \in ValidDigits : hcounts[d] = OccurrencesOf(d)
          /\ countNumerologicalNumbers(nn.Name, GetNumberSystem(nn.NumberSystem)).maxCount
                 = Max({hcounts[d] : d \in ValidDigits})
    /\ hpc = "karmicDone" =>
          AscendingListOf(hres.Numbers, {d \in ValidDigits : OccurrencesOf(d) = 0})

\* C10 witness: KarmicLessons of the Chaldean "a9": the '9' maps to 9, which
\* is not a valid Chaldean digit, so it is not counted and 9 is no key
C10_Witness ==
    /\ hpc = "karmicDone"
    /\ nn.Name = <<"a", "9">>
    /\ nn.NumberSystem = "Chaldean"
    /\ 9 \notin DOMAIN hcounts
    /\ hres.Numbers = <<2, 3, 4, 5, 6, 7, 8>>

----------------------------------------------------------------------------
(* Properties of the masks *)

\* the names that the scoring methods are called on
HandledNames == {nn.Name} \cup {sres.results[i].Name : i \in DOMAIN sres.results}

\* C8: for every non-empty name the vowel mask and the consonant mask have
\* one entry per character, exactly one of the two is true at every
\* position, the full mask is all true, and every slice
\* mask[idxStart:idxEnd] that calculateCoreNumber takes lies within the mask.
C8_MasksCoverName ==
    /\ \A name \in HandledNames :
          name # <<>> =>
              LET m == maskConstructor(name)
                  segs == coreSegments(name)
              IN  /\ Len(maskVowels(m).letterMask) = Len(name)
                  /\ Len(maskConsonants(m).letterMask) = Len(name)
                  /\ \A k \in DOMAIN name :
                        /\ maskVowels(m).letterMask[k] # maskConsonants(m).letterMask[k]
                        /\ maskFull(m).letterMask[k]
                  /\ \A j \in DOMAIN segs :
                        /\ 0 <= segs[j].idxStart
                        /\ segs[j].idxStart <= segs[j].idxEnd
                        /\ segs[j].idxEnd <= Len(m.letterMask)
    /\ ncall \in {"Full", "Vowels", "Consonants", "ResultFull", "ResultVowels", "ResultConsonants"}
          => ~nres.panic

----------------------------------------------------------------------------
(* Properties of the name search *)

\* C1: Search on a name with no '?' or with two or more returns an error,
\* no results and offset 0, and leaves DB and largestNameValueInTable as
\* they were before the call.
C1_SearchValidatesBeforeDatabase ==
    [][(ncall' = "Search" /\ numberOfQuestionMarks(nn.Name) # 1)
          => /\ sres'.results = <<>>
             /\ sres'.offset = 0
             /\ sres'.err \in {"missing '?' in name", "too many '?'"}
             /\ ~sres'.panic
             /\ DB' = DB
             /\ largestNameValueInTable' = largestNameValueInTable]_vars

\* C1 witness: a Search with two '?' that failed after an earlier search
\* had connected the database and filled the cache
C1_Witness ==
    /\ ncall = "Search"
    /\ numberOfQuestionMarks(nn.Name) = 2
    /\ sres.err = "too many '?'"
    /\ sres.results = <<>>
    /\ DB = "sqlite://names"
    /\ "usa_census" \in DOMAIN largestNameValueInTable

\* the excluded values of a constraint list: its negative entries, negated
Excluded(targets) == {-targets[k] : k \in {x \in DOMAIN targets : targets[x] < 0}}

\* the acceptable values of a constraint list: its entries that are not negative
Acceptable(targets) == {targets[k] : k \in {x \in DOMAIN targets : targets[x] >= 0}}

\* the top-level reduction steps of a completed calculation, as a set
StepsOf(result) == IF result.panic THEN {} ELSE SeqToSet(result.ReduceSteps)

\* C2: when the Full, Vowels and Consonants lists of a search hold only
\* negative entries, Full(), Vowels() and Consonants() recomputed on every
\* returned name have no reduction step equal to an excluded value of the
\* corresponding list.
C2_NegativeOnlyExcludes ==
    (/\ ncall \in SearchPhase
     /\ Acceptable(sopts.Full) = {}
     /\ Acceptable(sopts.Vowels) = {}
     /\ Acceptable(sopts.Consonants) = {})
        => \A i \in DOMAIN sres.results :
              /\ StepsOf(Full(sres.results[i])) \cap Excluded(sopts.Full) = {}
              /\ StepsOf(Vowels(sres.results[i])) \cap Excluded(sopts.Vowels) = {}
              /\ StepsOf(Consonants(sres.results[i])) \cap Excluded(sopts.Consonants) = {}

\* whether the steps of a calculation satisfy a constraint list: no excluded
\* value among them, and an acceptable one when the list has any
Satisfies(result, targets) ==
    /\ StepsOf(result) \cap Excluded(targets) = {}
    /\ (Acceptable(targets) # {} /\ ~result.panic)
          => StepsOf(result) \cap Acceptable(targets) # {}

\* C3: positive entries are acceptable values and negative entries are
\* excluded values, also together: no returned name has an excluded value
\* among the top-level reduction steps of the corresponding calculation, and
\* with a positive entry every returned name has an acceptable value there.
C3_MixedConstraints ==
    ncall \in SearchPhase
        => \A i \in DOMAIN sres.results :
              /\ Satisfies(Full(sres.results[i]), sopts.Full)
              /\ Satisfies(Vowels(sres.results[i]), sopts.Vowels)
              /\ Satisfies(Consonants(sres.results[i]), sopts.Consonants)

----------------------------------------------------------------------------
(* Properties of the unknown characters *)

\* the characters that AcceptableUnknownCharacters matches
AcceptableCharacters == {"-", " ", "\t", "\n", "\r", ".", "'"}

\* the lower-cased characters of the name without an entry in the mapping
Unmapped(n) ==
    {ToLowerRune(n.Name[k]) : k \in DOMAIN n.Name}
        \ DOMAIN GetNumberSystem(n.NumberSystem).NumberMapping

\* C11: UnknownCharacters() returns exactly the lower-cased characters of
\* the name that have no entry in the number system's mapping, minus the
\* acceptable ones; a character with an entry in the mapping is never
\* reported, and a character without one adds 0 to a calculation that
\* does not fail.
C11_UnknownCharactersAreUnmapped ==
    hpc = "unknownDone" =>
        /\ hres.Unknown = Unmapped(nn) \ AcceptableCharacters
        /\ hres.Unknown \cap DOMAIN GetNumberSystem(nn.NumberSystem).NumberMapping = {}
        /\ ~Full(nn).panic
        /\ \A j \in DOMAIN Full(nn).Breakdown :
              \A k \in DOMAIN Full(nn).Breakdown[j].LetterValues :
                  ToLowerRune(Full(nn).Breakdown[j].LetterValues[k].Letter) \in Unmapped(nn)
                      => Full(nn).Breakdown[j].LetterValues[k].Value = 0

----------------------------------------------------------------------------
(* Properties of the date calculation *)

DateParts(d) == <<d.Date.year, d.Date.month, d.Date.day>>

\* C12: for every date and master set, the year, the month and the day are
\* each reduced, the three final values are summed and the sum is reduced
\* again; the value of LifePath() is below 10 or a master number of the
\* caller (its final reduction stops at the caller's master numbers), and
\* the value of Event() is always a single digit (its final reduction uses
\* the empty master set).
C12_DateValueIsReducedSum ==
    dcall \in {"Event", "LifePath"} =>
        /\ Len(dres.Breakdown) = 3
        /\ \A i \in 1..3 :
               /\ dres.Breakdown[i].ReduceSteps[1] = DateParts(dd)[i]
               /\ dres.Breakdown[i].Value = Last(dres.Breakdown[i].ReduceSteps)
               /\ \A k \in 2..Len(dres.Breakdown[i].ReduceSteps) :
                      dres.Breakdown[i].ReduceSteps[k]
                          = DigitSum(dres.Breakdown[i].ReduceSteps[k - 1])
               /\ \/ dres.Breakdown[i].Value < 10
                  \/ dres.Breakdown[i].Value \in SeqToSet(dd.MasterNumbers)
        /\ dres.Value = Last(dres.ReduceSteps)
        /\ ChainShape(dres.Breakdown[1].Value + dres.Breakdown[2].Value + dres.Breakdown[3].Value,
                      IF dcall = "LifePath" THEN SeqToSet(dd.MasterNumbers) ELSE {},
                      dres.ReduceSteps)
        /\ dcall = "LifePath" => dres.Value < 10 \/ dres.Value \in SeqToSet(dd.MasterNumbers)
        /\ dcall = "Event" => dres.Value \in 1..9

\* Event() of 1970-01-02 with master numbers 11, 22, 33: the sum 8 + 1 + 2 is
\* the master number 11, and the event reduces it to 2
C12_Witness ==
    /\ dcall = "Event"
    /\ dd.Date = NewDate(1970, 1, 2)
    /\ dd.MasterNumbers = <<11, 22, 33>>
    /\ dres.ReduceSteps = <<11, 2>>

\* C13 as stated: in an event calculation master numbers are always
\* reduced: whatever master set the caller passes, no reduction sequence of
\* the Event() result, final or per component in Breakdown, ends at a value
\* of 10 or more, and the whole result equals the one computed with an empty
\* master set.
C13_EventIgnoresMasterNumbers ==
    dcall = "Event" =>
        /\ dres.Value < 10
        /\ \A i \in DOMAIN dres.Breakdown : Last(dres.Breakdown[i].ReduceSteps) < 10
        /\ dres = Event(Date(dd.Date, <<>>))

----------------------------------------------------------------------------
(* Properties of the date search *)

\* the search window [start, start + MonthsForward months) as day offsets
\* from the start date, from the offset of the client's first call on
WindowOffsets ==
    {k \in 0..(DaysBetween(dd.Date, AddDate(dd.Date, 0, dopts.MonthsForward, 0)) - 1) :
        k >= dopts.Offset}

SearchedValue(date) == calculateDate(date, dd.MasterNumbers, dopts.LifePath).Value

PassesDow(date) == Len(dopts.Dow) = 0 \/ Weekday(date) \in SeqToSet(dopts.Dow)

\* C14 as stated: positive entries of Match are acceptable values and
\* negative entries are values to avoid: a date with value v is never
\* returned when -v is in Match, and when Match holds only negative entries
\* every date of the window that passes the day-of-week filter and whose
\* value is not excluded is returned.
C14_NegativeMatchExcludes ==
    dcall = "Search" =>
        /\ \A i \in DOMAIN dlisted : ~inIntSlice(0 - SearchedValue(dlisted[i]), dopts.Match)
        /\ ( /\ Len(dopts.Match) > 0
             /\ \A i \in DOMAIN dopts.Match : dopts.Match[i] < 0
             /\ dsearch.offset = 0 )
           => \A k \in WindowOffsets :
                  ( /\ PassesDow(AddDays(dd.Date, k))
                    /\ ~inIntSlice(0 - SearchedValue(AddDays(dd.Date, k)), dopts.Match) )
                  => AddDays(dd.Date, k) \in SeqToSet(dlisted)

\* the day offsets of the window whose date the search accepts: the date
\* passes the day-of-week filter and its value is in Match, or Match is empty
MatchingOffsets ==
    SelectSeq([k \in 1..(DaysBetween(dd.Date, AddDate(dd.Date, 0, dopts.MonthsForward, 0))) |-> k - 1],
              LAMBDA k : /\ k \in WindowOffsets
                         /\ PassesDow(AddDays(dd.Date, k))
                         /\ \/ Len(dopts.Match) = 0
                            \/ inIntSlice(SearchedValue(AddDays(dd.Date, k)), dopts.Match))

\* C15 as stated: Search returns at most Count dates, all inside
\* [start, start + MonthsForward months) and in ascending order; the offset
\* is 0 exactly when no matching date remains in the window after the
\* returned ones, and otherwise it is the day offset of the first match not
\* yet returned, so that a client following the offsets receives every
\* matching date exactly once.
C15_DateSearchPaging ==
    dcall = "Search" =>
        /\ Len(dsearch.results) <= dopts.Count
        /\ Len(dlisted) <= Len(MatchingOffsets)
        /\ \A i \in DOMAIN dlisted : dlisted[i] = AddDays(dd.Date, MatchingOffsets[i])
        /\ dsearch.offset = 0 <=> Len(dlisted) = Len(MatchingOffsets)
        /\ dsearch.offset # 0 => dsearch.offset = MatchingOffsets[Len(dlisted) + 1]

----------------------------------------------------------------------------
(* Properties of the name search: batches and offsets *)

\* a search has just returned without error on a template with one '?'
SearchReturned ==
    /\ ncall = "Search"
    /\ numberOfQuestionMarks(nn.Name) = 1
    /\ sres.err = "nil"
    /\ ~sres.panic

\* the Count in force: 25 when the caller leaves it 0
CountInForce == IF sarg.Count = 0 THEN 25 ELSE sarg.Count

\* the names of every row that the caller's search matches, in the order of
\* its sort, from the given offset on: the same search with a Count that no
\* table reaches
AllFrom(offset) ==
    Search(nn, [sarg EXCEPT !.Count = Len(UsaCensusNames) + 1, !.Offset = offset],
           DB, largestNameValueInTable, FALSE).results

\* the search called again with the offset that the call returned
SearchAgain ==
    Search(nn, [sarg EXCEPT !.Offset = sres.offset], DB, largestNameValueInTable, FALSE).results

\* the returned batch and offset against all, the matching names from the
\* caller's offset on
BatchAndOffset(all) ==
    /\ Len(sres.results) <= CountInForce
    /\ Len(sres.results) = Min({CountInForce, Len(all)})
    /\ sres.results = SubSeq(all, 1, Len(sres.results))
    /\ sres.offset = 0 <=> Len(all) <= CountInForce
    /\ (sres.offset # 0 /\ LowerWord(sarg.Sort) = "random")
          => sres.offset = sarg.Offset + CountInForce
    /\ (sres.offset # 0 /\ LowerWord(sarg.Sort) # "random")
          => /\ \E rows \in {TableRows(DB, LowerWord(sarg.Dictionary))} :
                \E k \in DOMAIN rows :
                    /\ rows[k].Id = sres.offset
                    /\ ReplaceFirst(searchedName(Split(nn.Name)).reconstructedName,
                                    rows[k].Name)
                          = all[CountInForce + 1].Name
             /\ SearchAgain[1] = all[CountInForce + 1]

RandomBatch(all) ==
    /\ sres.results = SubSeq(all, sarg.Offset + 1, sarg.Offset + Len(sres.results))
    /\ sres.offset # 0 =>
           /\ SearchAgain # <<>>
           /\ SearchAgain[1] = all[sarg.Offset + CountInForce + 1]

----------------------------------------------------------------------------
(* Properties of the name search: the template *)

\* the index of the space-delimited segment of the template that holds '?'
MarkedSegment ==
    CHOOSE j \in DOMAIN Split(nn.Name) : numberOfQuestionMarks(Split(nn.Name)[j]) > 0

\* the template with the marked segment replaced by word
TemplateWith(word) ==
    Join([j \in DOMAIN Split(nn.Name) |->
             IF j = MarkedSegment THEN word ELSE Split(nn.Name)[j]])

\* the template without the marked segment
TemplateWithout ==
    Join(SelectSeq([j \in DOMAIN Split(nn.Name) |->
                       IF j = MarkedSegment THEN <<>> ELSE Split(nn.Name)[j]],
                   LAMBDA w : w # <<>>))

\* whether word is the segment with its '?' replaced by some run of
\* characters, letters compared without case
MatchesSegment(segment, word) ==
    LET k == CHOOSE j \in DOMAIN segment : segment[j] = "?"
        before == SubSeq(segment, 1, k - 1)
        after == SubSeq(segment, k + 1, Len(segment))
    IN  /\ Len(word) >= Len(before) + Len(after)
        /\ ToLower(SubSeq(word, 1, Len(before))) = ToLower(before)
        /\ ToLower(SubSeq(word, Len(word) - Len(after) + 1, Len(word))) = ToLower(after)

\* the value before any reduction that a calculation gives to a name of
\* the caller's number system and options
FirstStep(result) == IF result.panic THEN -1 ELSE result.ReduceSteps[1]

\* C18 as stated: every returned name is the template with the whole
\* space-delimited segment that holds '?' replaced by one table name, the
\* other segments unchanged; when literals are attached to the '?', only
\* table names that match them, without case and with '?' standing for any
\* run of characters, are returned; and the fixed values of the value and
\* count predicates are those of the template with that segment
\* contributing nothing.
C18_TemplateSegmentReplaced ==
    SearchReturned =>
        /\ \A i \in DOMAIN sres.results :
               \E k \in DOMAIN UsaCensusRows :
                   /\ sres.results[i].Name = TemplateWith(UsaCensusRows[k].Name)
                   /\ MatchesSegment(Split(nn.Name)[MarkedSegment], UsaCensusRows[k].Name)
        /\ FirstStep(Full([nn EXCEPT !.Name = TemplateWith(<<"?">>)]))
              = FirstStep(Full([nn EXCEPT !.Name = TemplateWithout]))
        /\ FirstStep(Vowels([nn EXCEPT !.Name = TemplateWith(<<"?">>)]))
              = FirstStep(Vowels([nn EXCEPT !.Name = TemplateWithout]))
        /\ FirstStep(Consonants([nn EXCEPT !.Name = TemplateWith(<<"?">>)]))
              = FirstStep(Consonants([nn EXCEPT !.Name = TemplateWithout]))
        /\ Counts([nn EXCEPT !.Name = TemplateWith(<<"?">>)])
              = Counts([nn EXCEPT !.Name = TemplateWithout])
        /\ searchedName(Split(nn.Name)).reconstructedName = TemplateWith(<<"?">>)

----------------------------------------------------------------------------
(* Properties of the name search: the caller's lists *)

\* C19 as stated: Search has no side effect for its caller: when it
\* returns, the lists Full, Vowels, Consonants, HiddenPassions and
\* KarmicLessons of the NameSearchOpts handed in and the caller's list of
\* master numbers hold the same elements in the same order as before.
C19_SearchLeavesListsAlone ==
    [][ncall' = "Search"
          => /\ sopts'.Full = sarg'.Full
             /\ sopts'.Vowels = sarg'.Vowels
             /\ sopts'.Consonants = sarg'.Consonants
             /\ sopts'.HiddenPassions = sarg'.HiddenPassions
             /\ sopts'.KarmicLessons = sarg'.KarmicLessons
             /\ nn'.MasterNumbers = nn.MasterNumbers]_vars

----------------------------------------------------------------------------
(* Properties of overlapping searches *)

\* what the search of p returns when it runs alone, from the package state
\* before any search
Alone(p) == Returned(Search(cq[p].n, cq[p].opts, "nil", <<>>, FALSE))

\* C20 as stated: the cache of largest name values is the only shared
\* state that a search reads or writes: in any interleaving of two
\* overlapping searches on a populated table that nobody writes, no other
\* shared state is written by both, and each search returns what it
\* returns when it runs alone.
C20_OverlappingSearchesIndependent ==
    /\ ~(\A p \in Searchers : cq[p].opened)
    /\ \A p \in Searchers :
           /\ cpc[p] # "crashed"
           /\ cpc[p] = "done" => cq[p].res = Alone(p)

----------------------------------------------------------------------------
(* Properties of CreateDatabase *)

\* the unreduced values of a name in one number system: the letter sums of
\* the whole name and the count of every digit
TrueColumns(name, numberSystem) ==
    LET n == Name(name, numberSystem, <<>>, FALSE)
    IN  [full |-> Full(n).ReduceSteps[1],
         vowels |-> Vowels(n).ReduceSteps[1],
         consonants |-> Consonants(n).ReduceSteps[1],
         counts |-> Counts(n)]

\* whether the columns of a row for one number system hold the values t
HoldsTrueColumns(row, system, prefix, t) ==
    /\ row.cols[<<system, "full">>] = t.full
    /\ row.cols[<<system, "vowels">>] = t.vowels
    /\ row.cols[<<system, "consonants">>] = t.consonants
    /\ \A d \in DOMAIN t.counts : row.cols[<<prefix, d>>] = t.counts[d]

\* C21: every numeric column of every row that CreateDatabase writes holds
\* the unreduced value computed for the row's name, in both number systems:
\* no stored value is a computed value wrapped modulo 256
C21_ColumnsHoldTrueValues ==
    \A k \in DOMAIN brows :
        /\ HoldsTrueColumns(brows[k], "pythagorean", "p",
               TrueColumns(brows[k].Name, "Pythagorean"))
        /\ HoldsTrueColumns(brows[k], "chaldean", "c",
               TrueColumns(brows[k].Name, "Chaldean"))

----------------------------------------------------------------------------
(* Properties of the name search: the database of a search *)

\* what the caller's search returns in a process that has made no search
\* before: the connection is opened with the Database of its own options
OnOwnDatabase ==
    Search(nn, sarg, "nil", <<>>, FALSE)

\* C22: each name search runs against the database that its own
\* NameSearchOpts.Database names: whatever searches the process has made
\* before, a search returns what it returns on a connection to its own
\* database, and the largest name value it works with is the one of the
\* table of that database (or the constant used when that value could not
\* be read).
C22_SearchUsesOwnDatabase ==
    ncall = "Search" =>
        \E own \in {OnOwnDatabase} :
            /\ sres.results = own.results
            /\ sres.offset = own.offset
            /\ sres.err = own.err
            /\ (sres.err = "nil" /\ numberOfQuestionMarks(nn.Name) = 1)
                   => largestNameValueInTable[LowerWord(sarg.Dictionary)]
                          \in {largestNameValue(TableRows(sarg.Database, LowerWord(sarg.Dictionary))),
                               100}

----------------------------------------------------------------------------
(* Properties of the lookups *)

\* the last element of reduceNumbers(n, masterNumbers, [])
ReducedTotal(n, masterNumbers) == Last(reduceNumbers(n, masterNumbers, <<>>))

\* the reduced total of a name part of value i next to the known part of lq
TotalWith(i) ==
    ReducedTotal(lq.MinimumSearchNumber
                     + (IF lq.ReduceWords THEN ReducedTotal(i, lq.MasterNumbers) ELSE i),
                 lq.MasterNumbers)

\* C23 as stated: generateLookupNums returns exactly the i of
\* 1..(max - min) whose reduced total is not the absolute value of a negative
\* target and, when there is a non-negative target, is one of the
\* non-negative targets: the final reduced total alone decides.
C23_LookupDecidedByReducedTotal ==
    lnums = {i \in 1..(lq.MaximumSearchNumber - lq.MinimumSearchNumber) :
                /\ TotalWith(i) \notin Excluded(lq.TargetNumbers)
                /\ Acceptable(lq.TargetNumbers) # {}
                       => TotalWith(i) \in Acceptable(lq.TargetNumbers)}

\* C25: a lookup with targets and without lookup values leaves a query
\* that selects no row; a lookup without targets adds no condition (every
\* row is selected); any other lookup selects the rows whose column value
\* is one of the lookup values.
C25_LookupPredicate ==
    lq # NoLookup =>
        /\ (Len(lq.TargetNumbers) # 0 /\ lnums = {}) => lrows = {}
        /\ Len(lq.TargetNumbers) = 0 => lrows = 0..MaxColumn
        /\ (Len(lq.TargetNumbers) # 0 /\ lnums # {}) => lrows = lnums \cap (0..MaxColumn)

\* a lookup with a target that no value reaches has selected no row
C25_Witness ==
    /\ lq # NoLookup
    /\ Len(lq.TargetNumbers) # 0
    /\ lnums = {}
    /\ lrows = {}

----------------------------------------------------------------------------
(* Properties of the name search: the rows that the lookups cover *)

\* whether a column value passes the condition that a lookup adds
Matched(cond, value) == cond.any \/ value \in cond.nums

\* the returned name that the row of the given table name stands for
Substituted(word) ==
    [nn EXCEPT !.Name = ReplaceFirst(searchedName(Split(nn.Name)).reconstructedName, word)]

\* the name without the searched word, as nameSearch calculates it
KnownPart ==
    [nn EXCEPT !.Name = searchedName(Split(nn.Name)).reconstructedName]

\* whether a row is covered: its calculation on the substituted full name
\* completes and satisfies the targets only if the column value passes cond
Covered(result, targets, cond, value) ==
    (~result.panic /\ Satisfies(result, targets)) => Matched(cond, value)

\* C24 as stated: in a search, for each of the full, vowels and consonants
\* columns, every row of the table whose substituted full name satisfies the
\* constraint given for that column passes the condition that the lookup of
\* that column adds to the query, whatever the column holds (0 too) and
\* whether the largest name value was read, cached or replaced by 100.
C24_NoSatisfyingRowMissed ==
    SearchReturned =>
        \E rows \in {TableRows(DB, LowerWord(sarg.Dictionary))},
           largest \in {largestNameValueInTable[LowerWord(sarg.Dictionary)]},
           system \in {LowerWord(GetNumberSystem(nn.NumberSystem).Name)} :
            \A k \in DOMAIN rows :
                /\ Covered(Full(Substituted(rows[k].Name)), sarg.Full,
                           addQueryLookup(queryLookup(Full(KnownPart), sarg.Full, nn, largest)),
                           rows[k].cols[<<system, "full">>])
                /\ Covered(Vowels(Substituted(rows[k].Name)), sarg.Vowels,
                           addQueryLookup(queryLookup(Vowels(KnownPart), sarg.Vowels, nn, largest)),
                           rows[k].cols[<<system, "vowels">>])
                /\ Covered(Consonants(Substituted(rows[k].Name)), sarg.Consonants,
                           addQueryLookup(
                               queryLookup(Consonants(KnownPart), sarg.Consonants, nn, largest)),
                           rows[k].cols[<<system, "consonants">>])

----------------------------------------------------------------------------
(* Properties of the name search: hidden passions and karmic lessons *)

\* hiddenPassions(counts).Numbers as a set: the keys with the largest count
PassionsOf(counts) ==
    {k \in DOMAIN counts : counts[k] = Max({counts[j] : j \in DOMAIN counts} \cup {0})}

\* karmicLessons(counts) as a set: the keys without an occurrence
LessonsOf(counts) == {k \in DOMAIN counts : counts[k] = 0}

\* what countNumerologicalNumbers returns for the name without the searched
\* word
KnownCount ==
    countNumerologicalNumbers(searchedName(Split(nn.Name)).reconstructedName,
                              GetNumberSystem(nn.NumberSystem))

\* total[d] of a row: the table count of d plus the count of d in the known
\* part of the name
TotalOf(row, d) ==
    row.cols[<<ColumnPrefix(GetNumberSystem(nn.NumberSystem)), d>>] + CountOf(KnownCount.counts, d)

\* whether the row passes the conditions that queryHiddenPassions has built
\* in the search that returned
BuiltHiddenPassions(row) ==
    queryHiddenPassions(searchedName(Split(nn.Name)).reconstructedName,
                        sopts.HiddenPassions, GetNumberSystem(nn.NumberSystem), row)

\* a search with hidden passions has returned; positive tells whether the
\* list has an entry that is not negative
HiddenPassionsSearched(positive) ==
    /\ SearchReturned
    /\ Len(sarg.HiddenPassions) > 0
    /\ (Acceptable(sarg.HiddenPassions) # {}) = positive
    /\ ~queryFails(sopts, GetNumberSystem(nn.NumberSystem),
                   DOMAIN TableRows(DB, LowerWord(sarg.Dictionary))[1].cols)

\* the conditions on the totals that C26 states
PrimeTotals(row) ==
    LET prime == Max(Acceptable(sarg.HiddenPassions)) IN
    /\ TotalOf(row, prime) >= KnownCount.maxCount
    /\ \A p \in Acceptable(sarg.HiddenPassions) \ {prime} : TotalOf(row, p) = TotalOf(row, prime)
    /\ \A e \in Excluded(sarg.HiddenPassions) : TotalOf(row, e) < TotalOf(row, prime)
    /\ \A j \in ValidDigits \ (Acceptable(sarg.HiddenPassions) \cup Excluded(sarg.HiddenPassions)) :
           TotalOf(row, j) <= TotalOf(row, prime)

\* every positive entry is a hidden passion of the substituted full name and
\* no excluded digit is
PassionsAsRequested(row) ==
    /\ Acceptable(sarg.HiddenPassions) \subseteq PassionsOf(Counts(Substituted(row.Name)))
    /\ Excluded(sarg.HiddenPassions) \cap PassionsOf(Counts(Substituted(row.Name))) = {}

\* C26: with a positive entry among the hidden passions, a row passes the
\* built conditions exactly when its totals stand to the total of the prime
\* (the largest requested digit) as requested: the prime's total at least
\* the known part's largest count, equal for the other positive entries, less
\* for the excluded digits, at most equal for the remaining valid digits; and
\* exactly when every positive entry is a hidden passion of the combined
\* name and no excluded digit is.
C26_HiddenPassionsWithPrime ==
    HiddenPassionsSearched(TRUE) =>
        \E rows \in {TableRows(DB, LowerWord(sarg.Dictionary))} :
            \A k \in DOMAIN rows :
                /\ BuiltHiddenPassions(rows[k]) <=> PrimeTotals(rows[k])
                /\ BuiltHiddenPassions(rows[k]) <=> PassionsAsRequested(rows[k])

\* C27: with only negative entries among the hidden passions, a row passes
\* the built conditions exactly when the total of some valid digit that is
\* not excluded exceeds the total of every excluded digit; and exactly when
\* no excluded digit is a hidden passion of the combined name.
C27_HiddenPassionsAllNegative ==
    HiddenPassionsSearched(FALSE) =>
        \E rows \in {TableRows(DB, LowerWord(sarg.Dictionary))} :
            \A k \in DOMAIN rows :
                /\ BuiltHiddenPassions(rows[k])
                      <=> \E i \in ValidDigits \ Excluded(sarg.HiddenPassions) :
                             \A e \in Excluded(sarg.HiddenPassions) :
                                 TotalOf(rows[k], i) > TotalOf(rows[k], e)
                /\ BuiltHiddenPassions(rows[k]) <=> PassionsAsRequested(rows[k])

\* whether the row passes the conditions that queryKarmicLessons has built
\* in the search that returned
BuiltKarmicLessons(row) ==
    queryKarmicLessons(searchedName(Split(nn.Name)).reconstructedName,
                       sopts.KarmicLessons, GetNumberSystem(nn.NumberSystem), row)

\* a search with karmic lessons on digits of the number system has returned
KarmicLessonsSearched ==
    /\ SearchReturned
    /\ Len(sarg.KarmicLessons) > 0
    /\ ~queryFails(sopts, GetNumberSystem(nn.NumberSystem),
                   DOMAIN TableRows(DB, LowerWord(sarg.Dictionary))[1].cols)

\* C28: a row passes the conditions built for the karmic lessons exactly
\* when the total (table count + known count) is 0 for every positive entry
\* and above 0 for the digit of every negative entry; and exactly when every
\* positive entry is a karmic lesson of the combined name and no negated
\* entry is. No row passes when the digit of a positive entry occurs in the
\* known part.
C28_KarmicLessonsPredicate ==
    KarmicLessonsSearched =>
        \E rows \in {TableRows(DB, LowerWord(sarg.Dictionary))} :
            \A k \in DOMAIN rows :
                /\ BuiltKarmicLessons(rows[k])
                      <=> /\ \A d \in Acceptable(sarg.KarmicLessons) : TotalOf(rows[k], d) = 0
                          /\ \A d \in Excluded(sarg.KarmicLessons) : TotalOf(rows[k], d) > 0
                /\ BuiltKarmicLessons(rows[k])
                      <=> /\ Acceptable(sarg.KarmicLessons)
                                \subseteq LessonsOf(Counts(Substituted(rows[k].Name)))
                          /\ Excluded(sarg.KarmicLessons)
                                \cap LessonsOf(Counts(Substituted(rows[k].Name))) = {}
                /\ (\E d \in Acceptable(sarg.KarmicLessons) : CountOf(KnownCount.counts, d) > 0)
                      => (~BuiltKarmicLessons(rows[k]) /\ sres.results = <<>>)

----------------------------------------------------------------------------
(* Properties of the name search: paging *)

\* the names that the caller gets by calling Search again with each returned
\* offset, from the given offset on, until a call returns the offset 0; a
\* table of n rows needs no more than n calls
RECURSIVE PagesFrom(_, _)
PagesFrom(offset, calls) ==
    IF calls = 0 THEN <<>>
    ELSE LET r == Search(nn, [sarg EXCEPT !.Offset = offset], DB, largestNameValueInTable, FALSE)
         IN  IF r.offset = 0 THEN r.results
             ELSE r.results \o PagesFrom(r.offset, calls - 1)

\* the returned names followed by those of the calls with the returned offsets
Paged ==
    IF sres.offset = 0 THEN sres.results
    ELSE sres.results \o PagesFrom(sres.offset, Len(UsaCensusNames))

\* no two elements of the list hold the same name
DistinctNames(results) ==
    \A i, j \in DOMAIN results : i # j => results[i].Name # results[j].Name

\* C29 as stated: no name is returned twice. The names of one result list
\* are distinct; and the result lists of a common-sort search that is paged
\* with the returned offsets hold, one after the other, every matching name
\* from the caller's offset on, once, in the ascending order of the ids, with
\* or without a gender filter.
C29_NoNameTwice ==
    SearchReturned =>
        /\ DistinctNames(sres.results)
        /\ LowerWord(sarg.Sort) = "common"
              => /\ DistinctNames(Paged)
                 /\ Paged = AllFrom(sarg.Offset)

----------------------------------------------------------------------------
(* Properties of the name search: vowels and consonants of the table names *)

\* the position of the '?' in the name without the searched word, where the
\* table name starts in the substituted full name
MarkPosition ==
    CHOOSE j \in DOMAIN searchedName(Split(nn.Name)).reconstructedName :
        searchedName(Split(nn.Name)).reconstructedName[j] = "?"

\* the vowel mask of the letters of the table name inside the substituted
\* full name
MaskInside(word) ==
    SubSeq(maskConstructor(Substituted(word).Name).letterMask,
           MarkPosition, MarkPosition + Len(word) - 1)

\* the value before any reduction that a calculation on the substituted full
\* name gives to the table name
Contribution(result) == result.Breakdown[MarkedSegment].ReduceSteps[1]

\* C30 as stated: the letters of a table name are classified inside the
\* substituted full name as they are for the name alone, when its row is
\* written, and the vowels and consonants columns of the row equal what the
\* table name adds to Vowels() and Consonants() of the returned full name.
C30_TableMatchesScorer ==
    SearchReturned =>
        \E rows \in {TableRows(DB, LowerWord(sarg.Dictionary))},
           system \in {LowerWord(GetNumberSystem(nn.NumberSystem).Name)} :
            \A k \in DOMAIN rows :
                /\ MaskInside(rows[k].Name) = maskConstructor(ToAscii(rows[k].Name)).letterMask
                /\ ~Vowels(Substituted(rows[k].Name)).panic
                      => rows[k].cols[<<system, "vowels">>]
                            = Contribution(Vowels(Substituted(rows[k].Name)))
                /\ ~Consonants(Substituted(rows[k].Name)).panic
                      => rows[k].cols[<<system, "consonants">>]
                            = Contribution(Consonants(Substituted(rows[k].Name)))

====
